---- MODULE Spec2Model ----
(***************************************************************************)
(* Scoring engine of the Wecraft engineer-reputation system: the Trust,    *)
(* Impact, Compatibility and Recruiter Match calculators.                  *)
(*                                                                         *)
(* Numbers.  The calculators work on IEEE doubles; the model uses exact    *)
(* integer arithmetic on fixed-point values:                               *)
(*   - a score (0..100 points) is held in thousandths of a point (Milli);  *)
(*   - a weight or boost factor is held in hundredths (Pct): 0.4 is 40,    *)
(*     1.15 is 115;                                                        *)
(*   - a recruiter match total or component is the exact product           *)
(*     score * weight * boost, so 1 point is MatchUnit = Milli*Pct*Pct;    *)
(*   - a timestamp is a whole number of hours since 2024-01-01T00:00 UTC.  *)
(* Quotients are floored (\div) to the Milli resolution.                   *)
(***************************************************************************)
EXTENDS Integers, Sequences, FiniteSets, TLC

VARIABLES
    pc,                   \* "ready" before the call under study, "done" after it,
                          \* "repeated" after a second call with the same arguments
    now,                  \* wall clock read by new Date(), in hours
    trustResult,          \* TrustScoreResult of the last calculateTrustScore call
    compatibilityResult,  \* CompatibilityScoreResult of the last call
    impactResult,         \* ImpactScoreResult of the last calculateImpactScore call
    matchConfig,          \* optional RecruiterMatchScoreConfig (<<>> = undefined)
    matchResult,          \* RecruiterMatchScoreResult of the last call
    githubActivity,       \* GitHubActivity argument of calculateImpactScore
    impactConfig,         \* optional ImpactScoreConfig (<<>> = undefined)
    prevResult,           \* result of the call before the last one
    account,              \* GitHubAccount argument of calculateTrustScore
    contributionPattern,  \* ContributionPattern argument of calculateTrustScore
    trustConfig,          \* optional TrustScoreConfig (<<>> = undefined)
    engineerActivity,     \* EngineerActivity argument of calculateCompatibilityScore
    roleQuery,            \* RoleQuery argument of calculateCompatibilityScore
    fetched,              \* what the fetcher got for one pull request: pr, repo,
                          \* files, reviews, reviewComments
    normalizedPR,         \* MergedPR returned by normalizePullRequest
    analysisRuns,         \* engineer-analysis run of each username
    fetchRuns,            \* github-fetch run of each username
    computeRuns,          \* score-computation run of each username
    stored,               \* the record storeResults was given, per username
    analyzerConfig,       \* optional config of the GitHub analyzer
    userRepos,            \* repositories fetchAllUserData works through
    batchStart,           \* loop index i of fetchAllUserData
    inFlight,             \* repositories whose batch callback has not resolved
    repositoryContributions,  \* repositories pushed by resolved callbacks
    users,                \* table "users"
    jobs,                 \* table "jobs"
    lastCall              \* the last CRM call: caller, arguments, outcome

matchVars == <<trustResult, compatibilityResult, impactResult, matchConfig, matchResult>>
impactVars == <<githubActivity, impactConfig>>
trustVars == <<account, contributionPattern, trustConfig>>
compatVars == <<engineerActivity, roleQuery>>
normVars == <<fetched, normalizedPR>>
jobVars == <<analysisRuns, fetchRuns, computeRuns, stored>>
fetchVars == <<analyzerConfig, userRepos, batchStart, inFlight, repositoryContributions>>
crmVars == <<users, jobs, lastCall>>
flowVars == <<jobVars, fetchVars, crmVars>>

vars == <<pc, now, trustResult, compatibilityResult, impactResult,
          matchConfig, matchResult, githubActivity, impactConfig, prevResult,
          account, contributionPattern, trustConfig, engineerActivity, roleQuery,
          fetched, normalizedPR, analysisRuns, fetchRuns, computeRuns, stored,
          analyzerConfig, userRepos, batchStart, inFlight, repositoryContributions,
          users, jobs, lastCall>>

\* No job run, no fetch loop and no CRM table: the state of these parts in the
\* specifications of the calculators.
NoFlow ==
    /\ analysisRuns = <<>> /\ fetchRuns = <<>> /\ computeRuns = <<>> /\ stored = <<>>
    /\ analyzerConfig = <<>> /\ userRepos = <<>> /\ batchStart = 0 /\ inFlight = {}
    /\ repositoryContributions = <<>>
    /\ users = <<>> /\ jobs = <<>> /\ lastCall = <<>>

Milli == 10 * 10 * 10
Pct == 10 * 10
MatchUnit == Milli * Pct * Pct

Min(a, b) == IF a <= b THEN a ELSE b
Max(a, b) == IF a >= b THEN a ELSE b

\* The value a result variable holds before its calculator has been called.
NoResult == [none |-> TRUE]

\* Object spread {...base, ...over}: the keys of over replace those of base.
Spread(base, over) ==
    [k \in DOMAIN base |-> IF k \in DOMAIN over THEN over[k] ELSE base[k]]

\* config?.field : the field of an optional partial config, else nothing.
Opt(config, field) == IF field \in DOMAIN config THEN config[field] ELSE <<>>

(***************************************************************************)
(* Recruiter Match calculator                                              *)
(***************************************************************************)
MATCH_DEFAULT_CONFIG ==
    [weights |-> [trust |-> 40, compatibility |-> 40, impact |-> 20],
     minimumThresholds |-> [trust |-> 50, compatibility |-> 30, impact |-> 20],
     boostFactors |-> [highTrustBoost |-> 110,
                       highCompatibilityBoost |-> 115,
                       highImpactBoost |-> 105]]

\* The result of a fired gate: everything zero, every boost 1.
GatedScore ==
    [total |-> 0, trustComponent |-> 0, compatibilityComponent |-> 0,
     impactComponent |-> 0,
     boosts |-> [trust |-> Pct, compatibility |-> Pct, impact |-> Pct]]

\* A blend that never boosts the trust axis.
calculateWeightedScoreNoTrustBoost(trustScore, compatibilityScore, impactScore, config) ==
    IF \/ trustScore < config.minimumThresholds.trust * Milli
       \/ compatibilityScore < config.minimumThresholds.compatibility * Milli
       \/ impactScore < config.minimumThresholds.impact * Milli
    THEN GatedScore
    ELSE
      LET compatibilityBoost ==
              IF compatibilityScore > 85 * Milli
              THEN config.boostFactors.highCompatibilityBoost ELSE Pct
          impactBoost ==
              IF impactScore > 90 * Milli
              THEN config.boostFactors.highImpactBoost ELSE Pct
      IN  [total |-> Min(trustScore * config.weights.trust * Pct
                         + compatibilityScore * config.weights.compatibility
                             * compatibilityBoost
                         + impactScore * config.weights.impact * impactBoost,
                         100 * MatchUnit),
           trustComponent |-> trustScore * config.weights.trust * Pct,
           compatibilityComponent |->
               compatibilityScore * config.weights.compatibility * Pct,
           impactComponent |-> impactScore * config.weights.impact * Pct,
           boosts |-> [trust |-> Pct, compatibility |-> compatibilityBoost,
                       impact |-> impactBoost]]

\* A blend whose boosts start at the threshold itself (>= instead of >).
calculateWeightedScoreBoostAtThreshold(trustScore, compatibilityScore, impactScore, config) ==
    IF \/ trustScore < config.minimumThresholds.trust * Milli
       \/ compatibilityScore < config.minimumThresholds.compatibility * Milli
       \/ impactScore < config.minimumThresholds.impact * Milli
    THEN GatedScore
    ELSE
      LET trustBoost ==
              IF trustScore >= 80 * Milli
              THEN config.boostFactors.highTrustBoost ELSE Pct
          compatibilityBoost ==
              IF compatibilityScore >= 85 * Milli
              THEN config.boostFactors.highCompatibilityBoost ELSE Pct
          impactBoost ==
              IF impactScore >= 90 * Milli
              THEN config.boostFactors.highImpactBoost ELSE Pct
      IN  [total |-> Min(trustScore * config.weights.trust * trustBoost
                         + compatibilityScore * config.weights.compatibility
                             * compatibilityBoost
                         + impactScore * config.weights.impact * impactBoost,
                         100 * MatchUnit),
           trustComponent |-> trustScore * config.weights.trust * Pct,
           compatibilityComponent |->
               compatibilityScore * config.weights.compatibility * Pct,
           impactComponent |-> impactScore * config.weights.impact * Pct,
           boosts |-> [trust |-> trustBoost, compatibility |-> compatibilityBoost,
                       impact |-> impactBoost]]

\* A gate that lets a low trust score through to the weighted blend.
calculateWeightedScoreNoTrustGate(trustScore, compatibilityScore, impactScore, config) ==
    IF \/ compatibilityScore < config.minimumThresholds.compatibility * Milli
       \/ impactScore < config.minimumThresholds.impact * Milli
    THEN GatedScore
    ELSE [total |-> Min(trustScore * config.weights.trust * Pct
                        + compatibilityScore * config.weights.compatibility * Pct
                        + impactScore * config.weights.impact * Pct,
                        100 * MatchUnit),
          trustComponent |-> trustScore * config.weights.trust * Pct,
          compatibilityComponent |->
              compatibilityScore * config.weights.compatibility * Pct,
          impactComponent |-> impactScore * config.weights.impact * Pct,
          boosts |-> [trust |-> Pct, compatibility |-> Pct, impact |-> Pct]]

calculateWeightedScore(trustScore, compatibilityScore, impactScore, config) ==
    IF trustScore < config.minimumThresholds.trust * Milli THEN GatedScore
    ELSE IF compatibilityScore < config.minimumThresholds.compatibility * Milli
    THEN GatedScore
    ELSE IF impactScore < config.minimumThresholds.impact * Milli THEN GatedScore
    ELSE
      LET trustBoost ==
              IF trustScore > 80 * Milli
              THEN config.boostFactors.highTrustBoost ELSE Pct
          compatibilityBoost ==
              IF compatibilityScore > 85 * Milli
              THEN config.boostFactors.highCompatibilityBoost ELSE Pct
          impactBoost ==
              IF impactScore > 90 * Milli
              THEN config.boostFactors.highImpactBoost ELSE Pct
          trustComponent == trustScore * config.weights.trust * trustBoost
          compatibilityComponent ==
              compatibilityScore * config.weights.compatibility * compatibilityBoost
          impactComponent == impactScore * config.weights.impact * impactBoost
      IN  [total |-> Min(trustComponent + compatibilityComponent + impactComponent,
                         100 * MatchUnit),
           trustComponent |-> trustScore * config.weights.trust * Pct,
           compatibilityComponent |->
               compatibilityScore * config.weights.compatibility * Pct,
           impactComponent |-> impactScore * config.weights.impact * Pct,
           boosts |-> [trust |-> trustBoost,
                       compatibility |-> compatibilityBoost,
                       impact |-> impactBoost]]

\* parts.join(', ')
RECURSIVE Join(_)
Join(parts) ==
    IF Len(parts) = 0 THEN ""
    ELSE IF Len(parts) = 1 THEN parts[1]
    ELSE parts[1] \o ", " \o Join(Tail(parts))

\* A list built by a run of "if (cond) list.push(item)" statements.
RECURSIVE Pushes(_)
Pushes(steps) ==
    IF Len(steps) = 0 THEN <<>>
    ELSE (IF steps[1][1] THEN <<steps[1][2]>> ELSE <<>>) \o Pushes(Tail(steps))

Includes(list, item) == \E i \in 1..Len(list) : list[i] = item

generateSummary(trustRes, compatibilityRes, impactRes, matchScore) ==
    LET parts ==
          << IF matchScore >= 85 * MatchUnit THEN "Excellent match"
             ELSE IF matchScore >= 70 * MatchUnit THEN "Strong match"
             ELSE IF matchScore >= 50 * MatchUnit THEN "Good match"
             ELSE "Fair match",
             "with " \o compatibilityRes.explanation.role \o " role" >>
          \o Pushes(<<
               <<trustRes.isAuthentic, "and authentic profile">>,
               <<compatibilityRes.compatibilityLevel = "high",
                 "showing strong role alignment">>,
               <<impactRes.totalScore > 80 * Milli,
                 "with high-impact contributions">> >>)
    IN  Join(parts) \o "."

\* A recruiter view that forwards the trust result's full red-flag list.
CriticalRedFlagsLeakAll(trustRes, compatibilityRes) ==
    trustRes.redFlags
    \o Pushes(<<
         <<compatibilityRes.compatibilityLevel = "poor", "Poor role compatibility">> >>)

\* The restricted red-flag list of the recruiter view.
CriticalRedFlags(trustRes, compatibilityRes) ==
    Pushes(<<
      <<~trustRes.isAuthentic, "Profile authenticity concerns">>,
      <<trustRes.spamDetection.forkFarming, "Fork-only contributions detected">>,
      <<compatibilityRes.compatibilityLevel = "poor", "Poor role compatibility">> >>)

\* A recruiter view that never raises the impact concern.
generateRecruiterViewNoImpactConcern(trustRes, compatibilityRes, impactRes, matchScore, components) ==
    LET level ==
          IF matchScore >= 85 * MatchUnit THEN <<"excellent", "strongly-recommend">>
          ELSE IF matchScore >= 70 * MatchUnit THEN <<"strong", "recommend">>
          ELSE IF matchScore >= 50 * MatchUnit THEN <<"good", "consider">>
          ELSE IF matchScore >= 30 * MatchUnit THEN <<"fair", "consider">>
          ELSE <<"poor", "not-recommended">>
        strengths ==
          Pushes(<<
            <<trustRes.totalScore > 75 * Milli,
              "Highly authentic profile with verified contributions">>,
            <<compatibilityRes.totalScore > 75 * Milli,
              "Strong " \o compatibilityRes.explanation.role \o " role fit">>,
            <<impactRes.totalScore > 80 * Milli,
              "High-impact contributions with proven track record">>,
            <<trustRes.isAuthentic /\ compatibilityRes.compatibilityLevel = "high",
              "Authentic engineer with excellent role alignment">> >>)
        concerns ==
          Pushes(<<
            <<trustRes.totalScore < 60 * Milli, "Trust score below ideal threshold">>,
            <<compatibilityRes.totalScore < 50 * Milli,
              "Limited role-specific experience">>,
            <<Len(trustRes.redFlags) > 0,
              ToString(Len(trustRes.redFlags)) \o " trust-related concerns">> >>)
    IN  [matchScore |-> matchScore,
         matchLevel |-> level[1],
         recommendation |-> level[2],
         trustScore |-> trustRes.totalScore,
         fitScore |-> compatibilityRes.totalScore,
         impactScore |-> impactRes.totalScore,
         strengths |-> strengths,
         concerns |-> concerns,
         isAuthentic |-> trustRes.isAuthentic,
         isGoodFit |-> compatibilityRes.compatibilityLevel # "poor",
         hasImpact |-> impactRes.totalScore > 50 * Milli,
         redFlags |-> CriticalRedFlags(trustRes, compatibilityRes),
         summary |-> generateSummary(trustRes, compatibilityRes, impactRes, matchScore)]

generateRecruiterView(trustRes, compatibilityRes, impactRes, matchScore, components) ==
    LET level ==
          IF matchScore >= 85 * MatchUnit THEN <<"excellent", "strongly-recommend">>
          ELSE IF matchScore >= 70 * MatchUnit THEN <<"strong", "recommend">>
          ELSE IF matchScore >= 50 * MatchUnit THEN <<"good", "consider">>
          ELSE IF matchScore >= 30 * MatchUnit THEN <<"fair", "consider">>
          ELSE <<"poor", "not-recommended">>
        strengths ==
          Pushes(<<
            <<trustRes.totalScore > 75 * Milli,
              "Highly authentic profile with verified contributions">>,
            <<compatibilityRes.totalScore > 75 * Milli,
              "Strong " \o compatibilityRes.explanation.role \o " role fit">>,
            <<impactRes.totalScore > 80 * Milli,
              "High-impact contributions with proven track record">>,
            <<trustRes.isAuthentic /\ compatibilityRes.compatibilityLevel = "high",
              "Authentic engineer with excellent role alignment">> >>)
        concerns ==
          Pushes(<<
            <<trustRes.totalScore < 60 * Milli, "Trust score below ideal threshold">>,
            <<compatibilityRes.totalScore < 50 * Milli,
              "Limited role-specific experience">>,
            <<impactRes.totalScore < 50 * Milli, "Lower contribution impact">>,
            <<Len(trustRes.redFlags) > 0,
              ToString(Len(trustRes.redFlags)) \o " trust-related concerns">> >>)
    IN  [matchScore |-> matchScore,
         matchLevel |-> level[1],
         recommendation |-> level[2],
         trustScore |-> trustRes.totalScore,
         fitScore |-> compatibilityRes.totalScore,
         impactScore |-> impactRes.totalScore,
         strengths |-> strengths,
         concerns |-> concerns,
         isAuthentic |-> trustRes.isAuthentic,
         isGoodFit |-> compatibilityRes.compatibilityLevel # "poor",
         hasImpact |-> impactRes.totalScore > 50 * Milli,
         redFlags |-> CriticalRedFlags(trustRes, compatibilityRes),
         summary |-> generateSummary(trustRes, compatibilityRes, impactRes, matchScore)]

\* The three score sections of the engineer view.
EngineerScoreSections(trustRes, compatibilityRes, impactRes) ==
    [trustScore |->
       [total |-> trustRes.totalScore,
        isAuthentic |-> trustRes.isAuthentic,
        confidence |-> trustRes.confidence,
        components |->
          [accountAuthenticity |-> trustRes.components.accountAuthenticity.score,
           contributionAuthenticity |->
             trustRes.components.contributionAuthenticity.score,
           collaborationSignals |-> trustRes.components.collaborationSignals.score,
           antiGamingScore |-> trustRes.components.antiGamingScore.score],
        greenFlags |-> trustRes.greenFlags,
        redFlags |-> trustRes.redFlags],
     compatibilityScore |->
       [total |-> compatibilityRes.totalScore,
        compatibilityLevel |-> compatibilityRes.compatibilityLevel,
        signals |->
          [technologyStackMatch |-> compatibilityRes.signals.technologyStackMatch,
           domainContributionDepth |->
             compatibilityRes.signals.domainContributionDepth,
           architecturePatternMatch |->
             compatibilityRes.signals.architecturePatternMatch,
           fileTypeAlignment |-> compatibilityRes.signals.fileTypeAlignment,
           activityTypeMatch |-> compatibilityRes.signals.activityTypeMatch,
           repositoryTypeMatch |-> compatibilityRes.signals.repositoryTypeMatch,
           reviewDomainExpertise |-> compatibilityRes.signals.reviewDomainExpertise],
        strengths |-> compatibilityRes.explanation.strengths,
        weaknesses |-> compatibilityRes.explanation.weaknesses],
     impactScore |->
       [total |-> impactRes.totalScore,
        components |->
          [prImpact |-> impactRes.components.prImpact.score,
           collaboration |-> impactRes.components.collaboration.score,
           longevity |-> impactRes.components.longevity.score,
           quality |-> impactRes.components.quality.score],
        signals |->
          [totalMergedPRs |-> impactRes.signals.totalMergedPRs,
           activeRepositories |-> impactRes.signals.activeRepositories,
           activitySpanMonths |-> impactRes.signals.activitySpanMonths]]]

ImprovementSuggestions(trustRes, compatibilityRes, impactRes) ==
    Pushes(<<
      <<trustRes.totalScore < 70 * Milli
          /\ Includes(trustRes.redFlags, "Insufficient repository diversity"),
        "Contribute to more diverse repositories to increase trust score">>,
      <<trustRes.totalScore < 70 * Milli /\ trustRes.spamDetection.forkFarming,
        "Contribute to original repositories, not just forks">>,
      <<compatibilityRes.totalScore < 60 * Milli,
        "Increase " \o compatibilityRes.explanation.role
          \o "-specific contributions">>,
      <<compatibilityRes.totalScore < 60 * Milli
          /\ compatibilityRes.negativeSignals.technologyMismatch > 50 * Milli,
        "Focus on role-relevant technologies and reduce unrelated contributions">>,
      <<impactRes.totalScore < 60 * Milli,
        "Increase merged PR count and collaboration with maintainers">>,
      <<impactRes.totalScore < 60 * Milli
          /\ impactRes.signals.activeRepositories < 3,
        "Contribute to more repositories to demonstrate breadth">> >>)

\* One object shared by both audiences: the engineer view with the recruiter's
\* recommendation left in it.
generateEngineerViewShared(trustRes, compatibilityRes, impactRes) ==
    LET s == EngineerScoreSections(trustRes, compatibilityRes, impactRes)
    IN  [trustScore |-> s.trustScore,
         compatibilityScore |->
           [total |-> s.compatibilityScore.total,
            compatibilityLevel |-> s.compatibilityScore.compatibilityLevel,
            signals |-> s.compatibilityScore.signals,
            strengths |-> s.compatibilityScore.strengths,
            weaknesses |-> s.compatibilityScore.weaknesses,
            recommendation |->
              IF compatibilityRes.compatibilityLevel = "poor"
              THEN "not-recommended" ELSE "consider"],
         impactScore |-> s.impactScore,
         improvementSuggestions |->
           ImprovementSuggestions(trustRes, compatibilityRes, impactRes)]

generateEngineerView(trustRes, compatibilityRes, impactRes) ==
    LET s == EngineerScoreSections(trustRes, compatibilityRes, impactRes)
    IN  [trustScore |-> s.trustScore,
         compatibilityScore |-> s.compatibilityScore,
         impactScore |-> s.impactScore,
         improvementSuggestions |->
           ImprovementSuggestions(trustRes, compatibilityRes, impactRes)]

\* fullConfig of calculateRecruiterMatchScore: defaults overridden per field.
MatchFullConfig(config) ==
    [weights |-> Spread(MATCH_DEFAULT_CONFIG.weights, Opt(config, "weights")),
     minimumThresholds |->
       Spread(MATCH_DEFAULT_CONFIG.minimumThresholds,
              Opt(config, "minimumThresholds")),
     boostFactors |->
       Spread(MATCH_DEFAULT_CONFIG.boostFactors, Opt(config, "boostFactors"))]

\* A match score whose engineer view adds a suggestion when the gate fired.
calculateRecruiterMatchScoreViewFromScore(trustRes, compatibilityRes, impactRes, config) ==
    LET fullConfig == MatchFullConfig(config)
        scoreCalculation ==
          calculateWeightedScore(trustRes.totalScore, compatibilityRes.totalScore,
                                 impactRes.totalScore, fullConfig)
    IN  [totalMatchScore |-> scoreCalculation.total,
         trustComponent |-> scoreCalculation.trustComponent,
         compatibilityComponent |-> scoreCalculation.compatibilityComponent,
         impactComponent |-> scoreCalculation.impactComponent,
         recruiterView |->
           generateRecruiterView(trustRes, compatibilityRes, impactRes,
             scoreCalculation.total,
             [trust |-> scoreCalculation.trustComponent,
              compatibility |-> scoreCalculation.compatibilityComponent,
              impact |-> scoreCalculation.impactComponent]),
         engineerView |->
           [generateEngineerView(trustRes, compatibilityRes, impactRes) EXCEPT
              !.improvementSuggestions =
                IF scoreCalculation.total = 0
                THEN @ \o <<"Raise your scores above the minimum thresholds">>
                ELSE @],
         calculationDetails |->
           [weights |-> fullConfig.weights,
            thresholds |-> fullConfig.minimumThresholds,
            boosts |-> scoreCalculation.boosts]]

calculateRecruiterMatchScore(trustRes, compatibilityRes, impactRes, config) ==
    LET fullConfig == MatchFullConfig(config)
        scoreCalculation ==
          calculateWeightedScore(trustRes.totalScore, compatibilityRes.totalScore,
                                 impactRes.totalScore, fullConfig)
    IN  [totalMatchScore |-> scoreCalculation.total,
         trustComponent |-> scoreCalculation.trustComponent,
         compatibilityComponent |-> scoreCalculation.compatibilityComponent,
         impactComponent |-> scoreCalculation.impactComponent,
         recruiterView |->
           generateRecruiterView(trustRes, compatibilityRes, impactRes,
             scoreCalculation.total,
             [trust |-> scoreCalculation.trustComponent,
              compatibility |-> scoreCalculation.compatibilityComponent,
              impact |-> scoreCalculation.impactComponent]),
         engineerView |-> generateEngineerView(trustRes, compatibilityRes, impactRes),
         calculationDetails |->
           [weights |-> fullConfig.weights,
            thresholds |-> fullConfig.minimumThresholds,
            boosts |-> scoreCalculation.boosts]]

(***************************************************************************)
(* Inputs of the match calculator: score results as the three calculators  *)
(* return them.                                                            *)
(***************************************************************************)
TRUST_RED_FLAGS ==
    <<"Fork-only contributions detected", "High rate of self-merged PRs",
      "Excessive daily PR activity", "Repository farming pattern detected",
      "High fork contribution ratio", "Account too new",
      "Insufficient repository diversity">>

\* Red-flag lists of a trust result, as index sets into TRUST_RED_FLAGS.
TrustFlagChoices == { {}, {6}, {1, 5}, {2, 6, 7}, {1, 2, 3, 5, 6} }

FlagList(choice) == SelectSeq(TRUST_RED_FLAGS,
                       LAMBDA f : \E i \in choice : TRUST_RED_FLAGS[i] = f)

TrustTotals == {0, 40000, 49999, 50000, 60000, 75000, 80000, 80001, 85000, 100000}
CompatibilityTotals ==
    {0, 20000, 29999, 30000, 50000, 75000, 85000, 85001, 100000}
ImpactTotals == {0, 10000, 19999, 20000, 50000, 70000, 90000, 90001, 100000}

Component(score) == [score |-> score]

\* A TrustScoreResult with the given total and red flags; isAuthentic and
\* forkFarming are tied to them as calculateTrustScore ties them.
TrustResultOf(total, choice) ==
    [totalScore |-> total,
     isAuthentic |-> total >= 60 * Milli /\ Cardinality(choice) < 3 /\ 1 \notin choice,
     confidence |-> 100 * Milli,
     components |-> [accountAuthenticity |-> Component(total),
                     contributionAuthenticity |-> Component(total),
                     collaborationSignals |-> Component(total),
                     antiGamingScore |-> Component(total)],
     spamDetection |-> [forkFarming |-> 1 \in choice],
     signals |-> [forkContributionRatio |-> IF 1 \in choice THEN Milli
                                            ELSE IF 5 \in choice THEN 900 ELSE 200,
                  accountAge |-> IF 6 \in choice THEN 10 * Milli ELSE 400 * Milli,
                  repositoryDiversity |-> IF 7 \in choice THEN 20 * Milli
                                          ELSE 60 * Milli],
     redFlags |-> FlagList(choice),
     greenFlags |-> IF total > 80 * Milli THEN <<"High maintainer trust">> ELSE <<>>]

CompatibilityLevelOf(totalScore) ==
    IF totalScore >= 75 * Milli THEN "high"
    ELSE IF totalScore >= 50 * Milli THEN "medium"
    ELSE IF totalScore >= 25 * Milli THEN "low"
    ELSE "poor"

CompatibilityResultOf(total, mismatch) ==
    [totalScore |-> total,
     compatibilityLevel |-> CompatibilityLevelOf(total),
     signals |-> [technologyStackMatch |-> total,
                  domainContributionDepth |-> total,
                  architecturePatternMatch |-> total,
                  fileTypeAlignment |-> total,
                  activityTypeMatch |-> total,
                  repositoryTypeMatch |-> total,
                  reviewDomainExpertise |-> total],
     negativeSignals |-> [technologyMismatch |-> mismatch],
     explanation |->
       [role |-> "backend",
        strengths |-> IF total > 70 * Milli
                      THEN <<"Strong technology stack match">> ELSE <<>>,
        weaknesses |-> IF total < 30 * Milli
                       THEN <<"Limited technology stack alignment">> ELSE <<>>]]

ImpactResultOf(total) ==
    [totalScore |-> total,
     components |-> [prImpact |-> Component(total),
                     collaboration |-> Component(total),
                     longevity |-> Component(total),
                     quality |-> Component(total)],
     signals |-> [totalMergedPRs |-> total \div (10 * Milli),
                  activeRepositories |-> total \div (25 * Milli),
                  activitySpanMonths |-> 12 * Milli]]

TrustResults == {TrustResultOf(t, c) : t \in TrustTotals, c \in TrustFlagChoices}
CompatibilityResults ==
    {CompatibilityResultOf(t, m) : t \in CompatibilityTotals, m \in {0, 60 * Milli}}
ImpactResults == {ImpactResultOf(t) : t \in ImpactTotals}

\* Optional configs: undefined, and partial overrides of each section.
MatchConfigs ==
    { <<>>,
      [weights |-> [trust |-> 50, impact |-> 10]],
      [minimumThresholds |-> [trust |-> 0, compatibility |-> 60]],
      [boostFactors |-> [highTrustBoost |-> 120]] }

(***************************************************************************)
(* Specification of one call of calculateRecruiterMatchScore.              *)
(***************************************************************************)
InitMatch ==
    /\ pc = "ready"
    /\ now = 0
    /\ trustResult \in TrustResults
    /\ compatibilityResult \in CompatibilityResults
    /\ impactResult \in ImpactResults
    /\ matchConfig \in MatchConfigs
    /\ matchResult = NoResult
    /\ githubActivity = <<>> /\ impactConfig = <<>> /\ prevResult = NoResult
    /\ account = <<>> /\ contributionPattern = <<>> /\ trustConfig = <<>>
    /\ engineerActivity = <<>> /\ roleQuery = <<>>
    /\ fetched = <<>> /\ normalizedPR = NoResult
    /\ NoFlow

CalculateMatch ==
    /\ pc = "ready"
    /\ matchResult' = calculateRecruiterMatchScore(trustResult, compatibilityResult,
                                                   impactResult, matchConfig)
    /\ pc' = "done"
    /\ UNCHANGED <<now, trustResult, compatibilityResult, impactResult, matchConfig,
                   impactVars, prevResult, trustVars, compatVars, normVars, flowVars>>

NextMatch == CalculateMatch

SpecMatch == InitMatch /\ [][NextMatch]_vars

(***************************************************************************)
(* Properties of the match calculator                                      *)
(***************************************************************************)
MatchDone == pc = "done" /\ matchResult # NoResult

DefaultThresholds ==
    MatchFullConfig(matchConfig).minimumThresholds
      = MATCH_DEFAULT_CONFIG.minimumThresholds

BelowDefaultGate ==
    \/ trustResult.totalScore < 50 * Milli
    \/ compatibilityResult.totalScore < 30 * Milli
    \/ impactResult.totalScore < 20 * Milli

\* C1: with the default thresholds, a trust total < 50, a compatibility total
\* < 30 or an impact total < 20 makes the match result all zero (total and the
\* three components) with all three boosts 1, however high the other axes are.
C1_GateZeroesEverything ==
    (MatchDone /\ DefaultThresholds /\ BelowDefaultGate) =>
        /\ matchResult.totalMatchScore = 0
        /\ matchResult.trustComponent = 0
        /\ matchResult.compatibilityComponent = 0
        /\ matchResult.impactComponent = 0
        /\ matchResult.calculationDetails.boosts
             = [trust |-> Pct, compatibility |-> Pct, impact |-> Pct]

\* The test's case: trust 40 is gated although compatibility and impact are high.
C1_Witness ==
    /\ MatchDone /\ DefaultThresholds
    /\ trustResult.totalScore = 40 * Milli
    /\ compatibilityResult.totalScore >= 75 * Milli
    /\ impactResult.totalScore >= 70 * Milli
    /\ matchResult.totalMatchScore = 0

\* Every field name of an engineer view, at each level of nesting (the leaves
\* below these records are numbers, booleans, strings and lists of strings).
EngineerViewFields(view) ==
    DOMAIN view
    \cup DOMAIN view.trustScore \cup DOMAIN view.trustScore.components
    \cup DOMAIN view.compatibilityScore \cup DOMAIN view.compatibilityScore.signals
    \cup DOMAIN view.impactScore \cup DOMAIN view.impactScore.components
    \cup DOMAIN view.impactScore.signals

\* C2: for every input and config the engineer view has no matchScore and no
\* recommendation field at any nesting level.
C2_EngineerViewHasNoMatchScore ==
    MatchDone =>
        EngineerViewFields(matchResult.engineerView)
          \cap {"matchScore", "recommendation"} = {}

\* A call whose recruiter view does carry a non-zero score and a recommendation.
C2_Witness ==
    /\ MatchDone
    /\ matchResult.recruiterView.matchScore > 0
    /\ matchResult.recruiterView.recommendation = "recommend"
    /\ "improvementSuggestions" \in EngineerViewFields(matchResult.engineerView)

CRITICAL_RED_FLAGS ==
    {"Profile authenticity concerns", "Fork-only contributions detected",
     "Poor role compatibility"}

\* C3: the recruiter view's red flags are only the three whitelisted entries,
\* each at most once (so at most 3), and which of them are present is decided
\* by isAuthentic, forkFarming and compatibilityLevel alone, never by the trust
\* result's own red-flag list.
C3_RecruiterRedFlagsRestricted ==
    MatchDone =>
      LET rf == matchResult.recruiterView.redFlags
      IN  /\ \A i \in 1..Len(rf) : rf[i] \in CRITICAL_RED_FLAGS
          /\ \A i, j \in 1..Len(rf) : rf[i] = rf[j] => i = j
          /\ Len(rf) <= 3
          /\ Includes(rf, "Profile authenticity concerns")
               <=> ~trustResult.isAuthentic
          /\ Includes(rf, "Fork-only contributions detected")
               <=> trustResult.spamDetection.forkFarming
          /\ Includes(rf, "Poor role compatibility")
               <=> compatibilityResult.compatibilityLevel = "poor"

\* A trust result with five red flags of its own yields three recruiter flags.
C3_Witness ==
    /\ MatchDone
    /\ Len(trustResult.redFlags) = 5
    /\ Len(matchResult.recruiterView.redFlags) = 3

\* The boost of an axis under the default config: factor above the threshold,
\* 1 at or below it.
DefaultBoost(score, threshold, factor) ==
    IF score > threshold * Milli THEN factor ELSE Pct

\* C13: with the default config and no gate fired, totalMatchScore is
\* min(100, trust*0.4*bT + compatibility*0.4*bC + impact*0.2*bI) with
\* bT = 1.1 iff trust > 80, bC = 1.15 iff compatibility > 85, bI = 1.05 iff
\* impact > 90 and 1 otherwise, while the three reported components are the
\* un-boosted products score*weight.
C13_DefaultBlendFormula ==
    (MatchDone /\ matchConfig = <<>> /\ ~BelowDefaultGate) =>
      LET t == trustResult.totalScore
          c == compatibilityResult.totalScore
          i == impactResult.totalScore
      IN  /\ matchResult.totalMatchScore
               = Min(100 * MatchUnit,
                     t * 40 * DefaultBoost(t, 80, 110)
                     + c * 40 * DefaultBoost(c, 85, 115)
                     + i * 20 * DefaultBoost(i, 90, 105))
          /\ matchResult.trustComponent = t * 40 * Pct
          /\ matchResult.compatibilityComponent = c * 40 * Pct
          /\ matchResult.impactComponent = i * 20 * Pct

\* Trust exactly 80, compatibility exactly 85 and impact exactly 90 are not
\* boosted: the total is 32 + 34 + 18 = 84.
C13_Witness ==
    /\ MatchDone /\ matchConfig = <<>>
    /\ trustResult.totalScore = 80 * Milli
    /\ compatibilityResult.totalScore = 85 * Milli
    /\ impactResult.totalScore = 90 * Milli
    /\ matchResult.totalMatchScore = 84 * MatchUnit
    /\ matchResult.calculationDetails.boosts
         = [trust |-> Pct, compatibility |-> Pct, impact |-> Pct]

\* The level named by the opening phrase of a summary ("Fair match with ..."
\* names "fair"), or "" when the summary opens with no level phrase.
LEVEL_PHRASES ==
    [excellent |-> "Excellent match", strong |-> "Strong match",
     good |-> "Good match", fair |-> "Fair match", poor |-> "Poor match"]

StartsWith(text, prefix) ==
    Len(text) >= Len(prefix) /\ SubSeq(text, 1, Len(prefix)) = prefix

SummaryLevel(summary) ==
    LET named == {level \in DOMAIN LEVEL_PHRASES :
                    StartsWith(summary, LEVEL_PHRASES[level])}
    IN  IF named = {} THEN "" ELSE CHOOSE level \in named : TRUE

\* C14: for every totalMatchScore the level named by the opening phrase of
\* recruiterView.summary is recruiterView.matchLevel (>= 85 excellent, >= 70
\* strong, >= 50 good, >= 30 fair, otherwise poor).
C14_SummaryNamesMatchLevel ==
    MatchDone =>
        SummaryLevel(matchResult.recruiterView.summary)
          = matchResult.recruiterView.matchLevel

(***************************************************************************)
(* Specification of two calls of calculateRecruiterMatchScore: the second  *)
(* call gets a trust result with a higher total and the same compatibility *)
(* and impact results and config; prevResult keeps the first call's result.*)
(***************************************************************************)
InitRaise ==
    /\ InitMatch
    /\ trustResult.redFlags = <<>>

RaiseTrust ==
    /\ pc = "done"
    /\ \E raised \in TrustResults :
         /\ raised.redFlags = trustResult.redFlags
         /\ raised.totalScore > trustResult.totalScore
         /\ trustResult' = raised
         /\ matchResult' = calculateRecruiterMatchScore(raised, compatibilityResult,
                                                        impactResult, matchConfig)
    /\ prevResult' = matchResult
    /\ pc' = "raised"
    /\ UNCHANGED <<now, compatibilityResult, impactResult, matchConfig,
                   impactVars, trustVars, compatVars, normVars, flowVars>>

NextRaise == CalculateMatch \/ RaiseTrust

SpecRaise == InitRaise /\ [][NextRaise]_vars

Raised == pc = "raised" /\ prevResult # NoResult /\ matchResult # NoResult

\* The gate of calculateWeightedScore fired in the call that returned result.
Gated(result) ==
    \/ result.recruiterView.trustScore < result.calculationDetails.thresholds.trust * Milli
    \/ result.recruiterView.fitScore
         < result.calculationDetails.thresholds.compatibility * Milli
    \/ result.recruiterView.impactScore
         < result.calculationDetails.thresholds.impact * Milli

\* C12: with compatibility and impact results (and config) held fixed, a call
\* with a higher trust total never returns a lower totalMatchScore, and its
\* boosts.trust is strictly larger when the first total is <= 80, the second
\* > 80 and neither call is gated.
C12_TrustRaiseNeverLowersMatch ==
    Raised =>
        /\ matchResult.totalMatchScore >= prevResult.totalMatchScore
        /\ (/\ prevResult.recruiterView.trustScore <= 80 * Milli
            /\ matchResult.recruiterView.trustScore > 80 * Milli
            /\ ~Gated(prevResult) /\ ~Gated(matchResult))
             => matchResult.calculationDetails.boosts.trust
                  > prevResult.calculationDetails.boosts.trust

\* The spec's example: trust raised from 75 to 85 with compatibility 75 and
\* impact 70, default config: the boost goes from 1 to 1.1 and the total up.
C12_Witness ==
    /\ Raised /\ matchConfig = <<>>
    /\ prevResult.recruiterView.trustScore = 75 * Milli
    /\ matchResult.recruiterView.trustScore = 85 * Milli
    /\ compatibilityResult.totalScore = 75 * Milli
    /\ impactResult.totalScore = 70 * Milli
    /\ prevResult.calculationDetails.boosts.trust = Pct
    /\ matchResult.calculationDetails.boosts.trust = 110
    /\ matchResult.totalMatchScore > prevResult.totalMatchScore

(***************************************************************************)
(* Specification of two calls of calculateRecruiterMatchScore on the same  *)
(* three results with different configs; prevResult keeps the first result.*)
(***************************************************************************)
Reconfigure ==
    /\ pc = "done"
    /\ \E config \in MatchConfigs \ {matchConfig} :
         /\ matchConfig' = config
         /\ matchResult' = calculateRecruiterMatchScore(trustResult, compatibilityResult,
                                                        impactResult, config)
    /\ prevResult' = matchResult
    /\ pc' = "reconfigured"
    /\ UNCHANGED <<now, trustResult, compatibilityResult, impactResult,
                   impactVars, trustVars, compatVars, normVars, flowVars>>

NextReconfigure == CalculateMatch \/ Reconfigure

SpecReconfigure == InitMatch /\ [][NextReconfigure]_vars

Reconfigured == pc = "reconfigured" /\ prevResult # NoResult /\ matchResult # NoResult

\* C26: two calls with the same trust, compatibility and impact results and
\* different configs return identical engineer views.
C26_EngineerViewIgnoresConfig ==
    Reconfigured => matchResult.engineerView = prevResult.engineerView

\* The configs changed the score, the level and the recommendation, not the
\* engineer view.
C26_Witness ==
    /\ Reconfigured
    /\ matchResult.totalMatchScore # prevResult.totalMatchScore
    /\ matchResult.recruiterView.matchLevel # prevResult.recruiterView.matchLevel
    /\ matchResult.recruiterView.recommendation
         # prevResult.recruiterView.recommendation
    /\ matchResult.calculationDetails # prevResult.calculationDetails
    /\ matchResult.engineerView = prevResult.engineerView

\* C27: with the default thresholds, a match score gated to 0 (trust < 50,
\* compatibility < 30 or impact < 20) comes with at least one entry in
\* recruiterView.concerns.
C27_GatedScoreHasConcerns ==
    (MatchDone /\ DefaultThresholds /\ BelowDefaultGate) =>
        /\ matchResult.recruiterView.matchScore = 0
        /\ Len(matchResult.recruiterView.concerns) >= 1

\* Gated by impact alone: trust and compatibility are high, the trust result
\* has no red flag, and the only concern is the impact one.
C27_Witness ==
    /\ MatchDone /\ DefaultThresholds
    /\ trustResult.totalScore = 100 * Milli /\ trustResult.redFlags = <<>>
    /\ compatibilityResult.totalScore = 100 * Milli
    /\ impactResult.totalScore = 10 * Milli
    /\ matchResult.recruiterView.matchScore = 0
    /\ matchResult.recruiterView.concerns = <<"Lower contribution impact">>

(***************************************************************************)
(* Dates.  A Date is a number of hours since 2024-01-01T00:00 UTC.         *)
(***************************************************************************)
HoursPerDay == 24
DaysPerMonth == 30
\* The divisor 1000*60*60*24*30 that turns a millisecond span into "months".
HoursPerMonth == HoursPerDay * DaysPerMonth
EpochYear == 2024

IsLeap(y) == (y % 4 = 0 /\ y % 100 # 0) \/ y % 400 = 0
MonthLengths(y) ==
    <<31, IF IsLeap(y) THEN 29 ELSE 28, 31, 30, 31, 30, 31, 31, 30, 31, 30, 31>>
RECURSIVE SumSeq(_)
SumSeq(q) == IF Len(q) = 0 THEN 0 ELSE q[1] + SumSeq(Tail(q))
YearDays(y) == SumSeq(MonthLengths(y))

\* new Date(Date.UTC(y, m - 1, d, h)), for y >= EpochYear
RECURSIVE DaysBeforeYear(_)
DaysBeforeYear(y) == IF y <= EpochYear THEN 0 ELSE DaysBeforeYear(y - 1) + YearDays(y - 1)
DateOf(y, m, d, h) ==
    (DaysBeforeYear(y) + SumSeq(SubSeq(MonthLengths(y), 1, m - 1)) + (d - 1))
      * HoursPerDay + h

\* date.toISOString().split('T')[0]: the calendar day of a timestamp
DayKey(date) == date \div HoursPerDay

\* <<year, day of the year>> of a day number counted from the first day of y
RECURSIVE YearAndDay(_, _)
YearAndDay(y, day) ==
    IF day < YearDays(y) THEN <<y, day>> ELSE YearAndDay(y + 1, day - YearDays(y))
\* date.getFullYear()
GetFullYear(date) == YearAndDay(EpochYear, DayKey(date))[1]
\* date.getMonth(), 0-based
RECURSIVE MonthFrom(_, _, _)
MonthFrom(lengths, m, day) ==
    IF day < lengths[m + 1] THEN m ELSE MonthFrom(lengths, m + 1, day - lengths[m + 1])
GetMonth(date) ==
    LET yd == YearAndDay(EpochYear, DayKey(date))
    IN  MonthFrom(MonthLengths(yd[1]), 0, yd[2])
\* `${date.getFullYear()}-${date.getMonth()}`
MonthKey(date) == <<GetFullYear(date), GetMonth(date)>>

(***************************************************************************)
(* Math library functions, to the model's resolution.                      *)
(***************************************************************************)
Micro == Milli * Milli

\* Math.log10(k) in units of 1/10000, for k in 1..50
LOG10_TABLE ==
    <<0, 3010, 4771, 6021, 6990, 7782, 8451, 9031, 9542, 10000,
      10414, 10792, 11139, 11461, 11761, 12041, 12304, 12553, 12788, 13010,
      13222, 13424, 13617, 13802, 13979, 14150, 14314, 14472, 14624, 14771,
      14914, 15051, 15185, 15315, 15441, 15563, 15682, 15798, 15911, 16021,
      16128, 16232, 16335, 16435, 16532, 16628, 16721, 16812, 16902, 16990>>

\* Math.min(Math.log10(n + 1) / Math.log10(base), 1) * 100, in Milli
LogScaled(n, base) ==
    IF n + 1 >= base THEN 100 * Milli
    ELSE (LOG10_TABLE[n + 1] * 100 * Milli) \div LOG10_TABLE[base]

\* factor^m for a whole m >= 0, in Micro; factor in Pct
RECURSIVE PowWhole(_, _)
PowWhole(factor, m) ==
    IF m = 0 THEN Micro ELSE (PowWhole(factor, m - 1) * factor) \div Pct

\* Math.pow(factor, hours / HoursPerMonth) for hours >= 0, in Micro: exact at
\* whole months, interpolated linearly inside a month.
Pow(factor, hours) ==
    LET m == hours \div HoursPerMonth
        f == hours % HoursPerMonth
        lo == PowWhole(factor, m)
        hi == PowWhole(factor, m + 1)
    IN  lo - ((lo - hi) * f) \div HoursPerMonth

\* Number of elements of a list that satisfy a test: list.filter(test).length
Count(list, Test(_)) == Cardinality({i \in 1..Len(list) : Test(list[i])})
\* new Set(list.map(Key)).size
Distinct(list, Key(_)) == Cardinality({Key(list[i]) : i \in 1..Len(list)})
\* list.reduce((sum, x) => sum + Val(x), 0)
Sum(list, Val(_)) == SumSeq([i \in 1..Len(list) |-> Val(list[i])])

(***************************************************************************)
(* Impact calculator                                                       *)
(***************************************************************************)
IMPACT_DEFAULT_CONFIG ==
    [weights |-> [prImpact |-> 40, collaboration |-> 30, longevity |-> 20,
                  quality |-> 10],
     timeDecayFactor |-> 95,
     minPRSize |-> 1,
     maxPRFrequency |-> 10,
     activityWindowMonths |-> 24,
     selfMergePenalty |-> 0]

\* A spam filter that already excludes a day with exactly maxPRFrequency PRs.
filterSpamPRsAtFrequency(prs, config) ==
    LET dayPRs(dayKey) == Count(prs, LAMBDA q : DayKey(q.mergedAt) = dayKey)
        IsSpam(pr) ==
          \/ pr.filesChanged < config.minPRSize
          \/ dayPRs(DayKey(pr.mergedAt)) >= config.maxPRFrequency
    IN  [valid |-> SelectSeq(prs, LAMBDA pr : ~IsSpam(pr)),
         spam |-> SelectSeq(prs, IsSpam)]

\* A spam filter whose day buckets are exact timestamps instead of calendar days.
filterSpamPRsByTimestamp(prs, config) ==
    LET IsSpam(pr) ==
          \/ pr.filesChanged < config.minPRSize
          \/ Count(prs, LAMBDA q : q.mergedAt = pr.mergedAt) > config.maxPRFrequency
    IN  [valid |-> SelectSeq(prs, LAMBDA pr : ~IsSpam(pr)),
         spam |-> SelectSeq(prs, IsSpam)]

filterSpamPRs(prs, config) ==
    LET dayPRs(dayKey) == Count(prs, LAMBDA q : DayKey(q.mergedAt) = dayKey)
        IsSpam(pr) ==
          \/ pr.filesChanged < config.minPRSize
          \/ dayPRs(DayKey(pr.mergedAt)) > config.maxPRFrequency
    IN  [valid |-> SelectSeq(prs, LAMBDA pr : ~IsSpam(pr)),
         spam |-> SelectSeq(prs, IsSpam)]

\* A self-merge filter that counts self-merged PRs but lets them through.
filterSelfMergedPRsKeepsThem(prs) ==
    [valid |-> prs,
     selfMerged |-> SelectSeq(prs, LAMBDA pr : pr.author = pr.mergedBy)]

filterSelfMergedPRs(prs) ==
    [valid |-> SelectSeq(prs, LAMBDA pr : pr.author # pr.mergedBy),
     selfMerged |-> SelectSeq(prs, LAMBDA pr : pr.author = pr.mergedBy)]

\* Result in Micro.  Merged PRs lie in the past of the reference date.
applyTimeDecay(pr, referenceDate, decayFactor) ==
    Pow(decayFactor, referenceDate - pr.mergedAt)

calculatePRImpactScore(prs, reviewsReceived, config, clock) ==
    IF Len(prs) = 0
    THEN [score |-> 0,
          breakdown |-> [mergedPRCount |-> 0, reviewEngagement |-> 0,
                         acceptanceRate |-> 0, repoDiversity |-> 0,
                         maintainerTrust |-> 0]]
    ELSE
      LET referenceDate == clock
          prCountScore ==
            Sum(prs, LAMBDA pr : applyTimeDecay(pr, referenceDate, config.timeDecayFactor))
          normalizedPRCount == Min(prCountScore, 10 * Micro) \div Pct
          totalReviewComments == Sum(reviewsReceived, LAMBDA r : r.commentCount)
          reviewEngagement ==
            Min((totalReviewComments * 100 * Milli) \div (Len(prs) * 5), 100 * Milli)
          acceptanceRate == 100 * Milli
          uniqueRepos == Distinct(prs, LAMBDA pr : pr.repository)
          repoDiversity == LogScaled(uniqueRepos, 50)
          maintainerMerges == Count(prs, LAMBDA pr : pr.isMaintainerMerge)
          maintainerTrust == (maintainerMerges * 100 * Milli) \div Len(prs)
          score == (normalizedPRCount * 30 + reviewEngagement * 25
                    + acceptanceRate * 15 + repoDiversity * 15
                    + maintainerTrust * 15) \div Pct
      IN  [score |-> Min(score, 100 * Milli),
           breakdown |-> [mergedPRCount |-> normalizedPRCount,
                          reviewEngagement |-> reviewEngagement,
                          acceptanceRate |-> acceptanceRate,
                          repoDiversity |-> repoDiversity,
                          maintainerTrust |-> maintainerTrust]]

calculateCollaborationScore(prs, reviewsGiven, reviewsReceived, issues, repositories) ==
    IF Len(prs) = 0
    THEN [score |-> 0,
          breakdown |-> [crossRepoContributions |-> 0, reviewReciprocity |-> 0,
                         issueEngagement |-> 0, teamParticipation |-> 0]]
    ELSE
      LET uniqueRepos == Distinct(prs, LAMBDA pr : pr.repository)
          crossRepoContributions == LogScaled(uniqueRepos, 20)
          reviewsGivenCount == Len(reviewsGiven)
          reviewsReceivedCount == Len(reviewsReceived)
          totalReviews == reviewsGivenCount + reviewsReceivedCount
          reciprocity ==
            IF totalReviews > 0
            THEN (Min(reviewsGivenCount, reviewsReceivedCount) * 100 * Milli)
                   \div Max(reviewsGivenCount, reviewsReceivedCount)
            ELSE 0
          issuesLeadingToPRs == Count(issues, LAMBDA issue : issue.ledToMergedPR)
          issueEngagement ==
            IF Len(issues) > 0
            THEN (issuesLeadingToPRs * 100 * Milli) \div Len(issues) ELSE 0
          teamRepos == Count(repositories, LAMBDA repo : repo.contributorCount > 1)
          teamParticipation ==
            IF Len(repositories) > 0
            THEN (teamRepos * 100 * Milli) \div Len(repositories) ELSE 0
          score == (crossRepoContributions * 30 + reciprocity * 30
                    + issueEngagement * 20 + teamParticipation * 20) \div Pct
      IN  [score |-> Min(score, 100 * Milli),
           breakdown |-> [crossRepoContributions |-> crossRepoContributions,
                          reviewReciprocity |-> reciprocity,
                          issueEngagement |-> issueEngagement,
                          teamParticipation |-> teamParticipation]]

calculateLongevityScore(prs, activitySpan) ==
    IF Len(prs) = 0
    THEN [score |-> 0,
          breakdown |-> [activitySpan |-> 0, consistency |-> 0,
                         temporalDistribution |-> 0]]
    ELSE
      LET spanHours == activitySpan.lastPRDate - activitySpan.firstPRDate
          \* spanMonths = spanHours / HoursPerMonth
          activitySpanScore ==
            IF spanHours >= 24 * HoursPerMonth THEN 100 * Milli
            ELSE (spanHours * 100 * Milli) \div (24 * HoursPerMonth)
          monthsWithPRs == Distinct(prs, LAMBDA pr : MonthKey(pr.mergedAt))
          consistency ==
            IF spanHours > 0
            THEN (monthsWithPRs * 100 * Milli * HoursPerMonth)
                   \div Max(spanHours, HoursPerMonth)
            ELSE 0
          years == Distinct(prs, LAMBDA pr : GetFullYear(pr.mergedAt))
          temporalDistribution == Min((years * 100 * Milli) \div 3, 100 * Milli)
          score == (activitySpanScore * 40 + consistency * 35
                    + temporalDistribution * 25) \div Pct
      IN  [score |-> Min(score, 100 * Milli),
           breakdown |-> [activitySpan |-> (spanHours * Milli) \div HoursPerMonth,
                          consistency |-> consistency,
                          temporalDistribution |-> temporalDistribution]]

calculateQualityScore(prs, reviewsReceived) ==
    IF Len(prs) = 0
    THEN [score |-> 0,
          breakdown |-> [reviewDepth |-> 0, maintainerTrust |-> 0,
                         contributionComplexity |-> 0, antiSpamScore |-> 0]]
    ELSE
      LET n == Len(prs)
          \* avgReviewRounds = sum / n
          reviewDepth ==
            Min((Sum(prs, LAMBDA pr : pr.reviewRounds) * 100 * Milli) \div (n * 3),
                100 * Milli)
          maintainerMerges == Count(prs, LAMBDA pr : pr.isMaintainerMerge)
          maintainerTrust == (maintainerMerges * 100 * Milli) \div n
          complexity ==
            Min(((Sum(prs, LAMBDA pr : pr.filesChanged)
                  + Sum(prs, LAMBDA pr : pr.directoriesTouched)) * 100 * Milli)
                  \div (n * 10),
                100 * Milli)
          forkPRs == Count(prs, LAMBDA pr : pr.isFork)
          forkPenalty == (forkPRs * 50 * Milli) \div n
          antiSpamScore == Max(100 * Milli - forkPenalty, 0)
          score == (reviewDepth * 30 + maintainerTrust * 30 + complexity * 25
                    + antiSpamScore * 15) \div Pct
      IN  [score |-> Min(score, 100 * Milli),
           breakdown |-> [reviewDepth |-> reviewDepth,
                          maintainerTrust |-> maintainerTrust,
                          contributionComplexity |-> complexity,
                          antiSpamScore |-> antiSpamScore]]

\* fullConfig of calculateImpactScore
ImpactFullConfig(config) ==
    [Spread(IMPACT_DEFAULT_CONFIG, config) EXCEPT
       !.weights = Spread(IMPACT_DEFAULT_CONFIG.weights, Opt(config, "weights"))]

\* A pipeline that runs the spam filter on all merged PRs, self-merged included.
PreFilterSpamOnAllPRs(mergedPRs, fullConfig) ==
    LET bySelfMerge == filterSelfMergedPRs(mergedPRs)
        bySpam == filterSpamPRs(mergedPRs, fullConfig)
    IN  [selfMerged |-> bySelfMerge.selfMerged,
         spam |-> bySpam.spam,
         cleanPRs |-> SelectSeq(bySpam.valid, LAMBDA pr : pr.author # pr.mergedBy)]

\* The pre-filter pipeline: self-merge filter, then spam filter on its result.
PreFilter(mergedPRs, fullConfig) ==
    LET bySelfMerge == filterSelfMergedPRs(mergedPRs)
        bySpam == filterSpamPRs(bySelfMerge.valid, fullConfig)
    IN  [selfMerged |-> bySelfMerge.selfMerged,
         spam |-> bySpam.spam,
         cleanPRs |-> bySpam.valid]

\* Keys of a Map in insertion order: the repositories of prs by first appearance.
RECURSIVE RepoOrder(_, _)
RepoOrder(prs, seen) ==
    IF Len(prs) = 0 THEN <<>>
    ELSE IF prs[1].repository \in seen THEN RepoOrder(Tail(prs), seen)
    ELSE <<prs[1].repository>> \o RepoOrder(Tail(prs), seen \cup {prs[1].repository})

\* entries.sort((a, b) => b.prCount - a.prCount): a stable sort, largest first
RECURSIVE SortByPRCount(_)
SortByPRCount(entries) ==
    IF Len(entries) = 0 THEN <<>>
    ELSE LET sorted == SortByPRCount(SubSeq(entries, 1, Len(entries) - 1))
             last == entries[Len(entries)]
             k == Count(sorted, LAMBDA e : e.prCount >= last.prCount)
         IN  SubSeq(sorted, 1, k) \o <<last>> \o SubSeq(sorted, k + 1, Len(sorted))

Reverse(list) == [i \in 1..Len(list) |-> list[Len(list) + 1 - i]]
\* list.slice(0, n) and list.slice(-n)
SliceFirst(list, n) == SubSeq(list, 1, Min(n, Len(list)))
SliceLast(list, n) == SubSeq(list, Max(1, Len(list) - n + 1), Len(list))

\* calculateImpactScore(githubActivity, config) called when the clock shows `clock`
calculateImpactScore(activity, config, clock) ==
    LET fullConfig == ImpactFullConfig(config)
        filtered == PreFilter(activity.mergedPRs, fullConfig)
        cleanPRs == filtered.cleanPRs
        prImpact == calculatePRImpactScore(cleanPRs, activity.reviewsReceived,
                                           fullConfig, clock)
        collaboration ==
          calculateCollaborationScore(cleanPRs, activity.reviewsGiven,
                                      activity.reviewsReceived, activity.issues,
                                      activity.repositories)
        longevity == calculateLongevityScore(cleanPRs, activity.activitySpan)
        quality == calculateQualityScore(cleanPRs, activity.reviewsReceived)
        totalScore == (prImpact.score * fullConfig.weights.prImpact
                       + collaboration.score * fullConfig.weights.collaboration
                       + longevity.score * fullConfig.weights.longevity
                       + quality.score * fullConfig.weights.quality) \div Pct
        spanHours == activity.activitySpan.lastPRDate - activity.activitySpan.firstPRDate
        activitySpanMonths == (spanHours * Milli) \div HoursPerMonth
        repos == RepoOrder(cleanPRs, {})
        topContributingRepos ==
          SliceFirst(SortByPRCount(
            [i \in 1..Len(repos) |->
               LET count == Count(cleanPRs, LAMBDA pr : pr.repository = repos[i])
               IN  [repo |-> repos[i], prCount |-> count, score |-> count * 10]]), 10)
        recent == SliceLast(cleanPRs, 10)
        recentActivity ==
          Reverse([i \in 1..Len(recent) |->
                     [date |-> recent[i].mergedAt,
                      event |-> "Merged PR in " \o recent[i].repository,
                      impact |-> applyTimeDecay(recent[i], clock,
                                                fullConfig.timeDecayFactor) * 10]])
    IN  [totalScore |-> Min(Max(totalScore, 0), 100 * Milli),
         components |-> [prImpact |-> prImpact, collaboration |-> collaboration,
                         longevity |-> longevity, quality |-> quality],
         signals |-> [totalMergedPRs |-> Len(activity.mergedPRs),
                      selfMergedPRs |-> Len(filtered.selfMerged),
                      spamPRs |-> Len(filtered.spam),
                      activeRepositories |-> Distinct(cleanPRs, LAMBDA pr : pr.repository),
                      activitySpanMonths |-> Max(activitySpanMonths, 0)],
         explainability |->
           [topContributingRepos |-> topContributingRepos,
            recentActivity |-> recentActivity,
            penalties |-> <<[reason |-> "Self-merged PRs excluded",
                             count |-> Len(filtered.selfMerged), impact |-> 0],
                            [reason |-> "Spam PRs filtered",
                             count |-> Len(filtered.spam), impact |-> 0]>>]]

(***************************************************************************)
(* Inputs of the impact calculator                                         *)
(***************************************************************************)
MaxPRs == 2      \* longest mergedPRs list
MaxTicks == 1    \* how many days the clock advances

ENGINEER == "engineer1"
PRDates == {DateOf(2024, 1, 11, 9), DateOf(2024, 1, 11, 20), DateOf(2025, 3, 6, 10)}
NowStart == DateOf(2025, 3, 7, 0)

\* A MergedPR of the engineer.  PRs of 2024 went to repo1, later ones to the
\* fork fork1; isMaintainerMerge is author # mergedBy, as the normalizer sets it
\* for a pull request whose merged_by is present.
MergedPROf(mergedBy, mergedAt, filesChanged) ==
    [repository |-> IF GetFullYear(mergedAt) = EpochYear THEN "repo1" ELSE "fork1",
     mergedAt |-> mergedAt,
     mergedBy |-> mergedBy,
     author |-> ENGINEER,
     reviewRounds |-> IF filesChanged = 0 THEN 0 ELSE 2,
     filesChanged |-> filesChanged,
     directoriesTouched |-> Min(filesChanged, 2),
     isMaintainerMerge |-> mergedBy # ENGINEER,
     isFork |-> GetFullYear(mergedAt) # EpochYear]

MergedPRs ==
    {MergedPROf(by, at, files) :
       by \in {ENGINEER, "maintainer1"}, at \in PRDates, files \in {0, 3}}
SelfMergedPRs == {pr \in MergedPRs : pr.author = pr.mergedBy}

MergedPRLists == UNION {[1..n -> MergedPRs] : n \in 0..MaxPRs}

\* Reviews, issues and repositories of an activity: none, or a typical set.
ActivityRests ==
    { [reviewsGiven |-> <<>>, reviewsReceived |-> <<>>, issues |-> <<>>,
       repositories |-> <<>>],
      [reviewsGiven |-> <<[commentCount |-> 1]>>,
       reviewsReceived |-> <<[commentCount |-> 3], [commentCount |-> 4]>>,
       issues |-> <<[ledToMergedPR |-> TRUE], [ledToMergedPR |-> FALSE]>>,
       repositories |-> <<[contributorCount |-> 5], [contributorCount |-> 1]>>] }

\* activitySpan: over the PR dates, empty, and with the two dates swapped.
ActivitySpans ==
    { [firstPRDate |-> DateOf(2024, 1, 11, 9), lastPRDate |-> DateOf(2025, 3, 6, 10)],
      [firstPRDate |-> DateOf(2024, 1, 11, 9), lastPRDate |-> DateOf(2024, 1, 11, 9)],
      [firstPRDate |-> DateOf(2025, 3, 6, 10), lastPRDate |-> DateOf(2024, 1, 11, 9)] }

GitHubActivityOf(prs, rest, span) ==
    [mergedPRs |-> prs,
     reviewsGiven |-> rest.reviewsGiven,
     reviewsReceived |-> rest.reviewsReceived,
     issues |-> rest.issues,
     repositories |-> rest.repositories,
     activitySpan |-> span]

GitHubActivities ==
    {GitHubActivityOf(prs, rest, span) :
       prs \in MergedPRLists, rest \in ActivityRests, span \in ActivitySpans}

ImpactConfigs == { <<>>, [maxPRFrequency |-> 1] }

(***************************************************************************)
(* Specification of calls of calculateImpactScore on one activity while    *)
(* the wall clock runs.                                                    *)
(***************************************************************************)
InitImpact ==
    /\ pc = "ready"
    /\ now = NowStart
    /\ githubActivity \in GitHubActivities
    /\ impactConfig \in ImpactConfigs
    /\ impactResult = NoResult
    /\ prevResult = NoResult
    /\ trustResult = NoResult /\ compatibilityResult = NoResult
    /\ matchConfig = <<>> /\ matchResult = NoResult
    /\ account = <<>> /\ contributionPattern = <<>> /\ trustConfig = <<>>
    /\ engineerActivity = <<>> /\ roleQuery = <<>>
    /\ fetched = <<>> /\ normalizedPR = NoResult
    /\ NoFlow

\* Time passes.
Tick ==
    /\ now < NowStart + MaxTicks * HoursPerDay
    /\ now' = now + HoursPerDay
    /\ UNCHANGED <<pc, matchVars, impactVars, prevResult, trustVars, compatVars, normVars, flowVars>>

CalculateImpact ==
    /\ pc = "ready"
    /\ impactResult' = calculateImpactScore(githubActivity, impactConfig, now)
    /\ pc' = "done"
    /\ UNCHANGED <<now, trustResult, compatibilityResult, matchConfig, matchResult,
                   impactVars, prevResult, trustVars, compatVars, normVars, flowVars>>

\* A second call with the same arguments.
RepeatImpact ==
    /\ pc = "done"
    /\ prevResult' = impactResult
    /\ impactResult' = calculateImpactScore(githubActivity, impactConfig, now)
    /\ pc' = "repeated"
    /\ UNCHANGED <<now, trustResult, compatibilityResult, matchConfig, matchResult,
                   impactVars, trustVars, compatVars, normVars, flowVars>>

NextImpact == Tick \/ CalculateImpact \/ RepeatImpact

SpecImpact == InitImpact /\ [][NextImpact]_vars

(***************************************************************************)
(* Properties of the impact calculator                                     *)
(***************************************************************************)
ImpactDone == pc \in {"done", "repeated"} /\ impactResult # NoResult /\ githubActivity # <<>>

\* totalScore and the four component scores of an ImpactScoreResult
ImpactScores(r) ==
    <<r.totalScore, r.components.prImpact.score, r.components.collaboration.score,
      r.components.longevity.score, r.components.quality.score>>

IsSelfMerged(pr) == pr.author = pr.mergedBy

WithMergedPRs(activity, prs) == [activity EXCEPT !.mergedPRs = prs]

\* An activity whose PRs are all self-merged scores 0.
C4_OnlySelfMergedScoresZero ==
    (ImpactDone /\ \A i \in 1..Len(githubActivity.mergedPRs) :
                      IsSelfMerged(githubActivity.mergedPRs[i]))
      => ImpactScores(impactResult) = <<0, 0, 0, 0, 0>>

\* A call counts the self-merged PRs, and returns the scores that the same
\* call returns with all self-merged PRs removed, or with one more added.
C4_SelfMergedPRsDoNotScore ==
    (pc = "ready" /\ pc' = "done") =>
      LET prs == githubActivity.mergedPRs
          Scored(list) ==
            ImpactScores(calculateImpactScore(WithMergedPRs(githubActivity, list),
                                              impactConfig, now))
      IN  /\ impactResult'.signals.selfMergedPRs = Count(prs, IsSelfMerged)
          /\ ImpactScores(impactResult')
               = Scored(SelectSeq(prs, LAMBDA pr : ~IsSelfMerged(pr)))
          /\ \A extra \in SelfMergedPRs :
               ImpactScores(impactResult') = Scored(Append(prs, extra))

\* C4: a merged PR with author = mergedBy is counted in signals.selfMergedPRs
\* and contributes to no score: adding or removing self-merged PRs leaves
\* totalScore and the four component scores unchanged, and an activity whose
\* only PRs are self-merged has totalScore 0.
C4_SelfMergeExclusion ==
    [] C4_OnlySelfMergedScoresZero /\ [][C4_SelfMergedPRsDoNotScore]_vars

\* A scoring activity that also holds a self-merged PR.
C4_Witness ==
    /\ ImpactDone
    /\ impactResult.signals.selfMergedPRs >= 1
    /\ impactResult.totalScore > 0

InScoreRange(x) == 0 <= x /\ x <= 100 * Milli

\* C5: for every activity, also one whose activitySpan ends before it starts,
\* totalScore and the four component scores lie within [0,100].
C5_ImpactScoresInRange ==
    ImpactDone =>
      \A i \in 1..5 : InScoreRange(ImpactScores(impactResult)[i])

\* C8: two calls with identical arguments return identical results, whatever
\* the wall-clock time of each call.
C8_RepeatedCallSameResult ==
    (pc = "repeated" /\ githubActivity # <<>>) => impactResult = prevResult

\* C9: the spam filter sees only the PRs that passed the self-merge filter: a
\* self-merged PR is never counted as spam and never fills a day bucket, and
\* every PR is in exactly one of the classes self-merged, spam, clean.
C9_SpamFilterAfterSelfMergeFilter ==
    ImpactDone =>
      LET prs == githubActivity.mergedPRs
          fullConfig == ImpactFullConfig(impactConfig)
          others == SelectSeq(prs, LAMBDA pr : ~IsSelfMerged(pr))
          sameDay(pr) == Count(others, LAMBDA q : DayKey(q.mergedAt) = DayKey(pr.mergedAt))
          IsSpam(pr) == \/ pr.filesChanged < fullConfig.minPRSize
                        \/ sameDay(pr) > fullConfig.maxPRFrequency
          clean == Sum(impactResult.explainability.topContributingRepos,
                       LAMBDA e : e.prCount)
      IN  /\ impactResult.signals.totalMergedPRs = Len(prs)
          /\ impactResult.signals.selfMergedPRs = Count(prs, IsSelfMerged)
          /\ impactResult.signals.spamPRs = Count(others, IsSpam)
          /\ clean = Len(impactResult.explainability.recentActivity)
          /\ impactResult.signals.selfMergedPRs + impactResult.signals.spamPRs + clean
               = impactResult.signals.totalMergedPRs

\* Two PRs of one day under maxPRFrequency = 1: the self-merged one does not
\* fill the bucket, so the other one stays clean.
C9_Witness ==
    /\ ImpactDone
    /\ ImpactFullConfig(impactConfig).maxPRFrequency = 1
    /\ Len(githubActivity.mergedPRs) = 2
    /\ DayKey(githubActivity.mergedPRs[1].mergedAt)
         = DayKey(githubActivity.mergedPRs[2].mergedAt)
    /\ impactResult.signals.selfMergedPRs = 1
    /\ impactResult.signals.spamPRs = 0
    /\ Len(impactResult.explainability.recentActivity) = 1

\* C17: among the PRs that pass the self-merge filter, a PR is excluded as
\* spam and counted in signals.spamPRs exactly when filesChanged < minPRSize
\* or more than maxPRFrequency of them were merged on its calendar day; such a
\* day loses all its PRs, a day with exactly maxPRFrequency PRs loses none.
C17_SpamExclusionRule ==
    ImpactDone =>
      LET fullConfig == ImpactFullConfig(impactConfig)
          survivors == SelectSeq(githubActivity.mergedPRs, LAMBDA pr : ~IsSelfMerged(pr))
          PRsOfDay(pr) ==
            Cardinality({k \in 1..Len(survivors) :
                           DayKey(survivors[k].mergedAt) = DayKey(pr.mergedAt)})
          Excluded(pr) == \/ pr.filesChanged < fullConfig.minPRSize
                          \/ PRsOfDay(pr) > fullConfig.maxPRFrequency
          kept == SelectSeq(survivors, LAMBDA pr : ~Excluded(pr))
          recent == impactResult.explainability.recentActivity
      IN  /\ impactResult.signals.spamPRs = Len(survivors) - Len(kept)
          /\ Len(recent) = Len(kept)
          /\ \A k \in 1..Len(kept) :
                recent[Len(kept) + 1 - k].date = kept[k].mergedAt

\* maxPRFrequency = 1 and two maintainer-merged PRs of three files, merged at
\* different hours of one day: both are spam.
C17_Witness ==
    /\ ImpactDone
    /\ ImpactFullConfig(impactConfig).maxPRFrequency = 1
    /\ Len(githubActivity.mergedPRs) = 2
    /\ \A k \in 1..2 : /\ ~IsSelfMerged(githubActivity.mergedPRs[k])
                        /\ githubActivity.mergedPRs[k].filesChanged = 3
    /\ githubActivity.mergedPRs[1].mergedAt # githubActivity.mergedPRs[2].mergedAt
    /\ DayKey(githubActivity.mergedPRs[1].mergedAt)
         = DayKey(githubActivity.mergedPRs[2].mergedAt)
    /\ impactResult.signals.spamPRs = 2
    /\ impactResult.explainability.recentActivity = <<>>

(***************************************************************************)
(* Trust calculator                                                        *)
(*                                                                         *)
(* A value of type T | null is <<>> for null and <<v>> for the value v.    *)
(***************************************************************************)
TRUST_DEFAULT_CONFIG ==
    [maxPRsPerDay |-> 20,
     maxPRsPerHour |-> 5,
     minAccountAgeDays |-> 30,
     minUniqueRepos |-> 2,
     forkOnlyPenalty |-> 50,
     identicalMessageThreshold |-> 5,
     weights |-> [accountAuthenticity |-> 25, contributionAuthenticity |-> 35,
                  collaborationSignals |-> 25, antiGamingScore |-> 15]]

\* if (value) ... for a string | null: null and "" are falsy
Truthy(value) == value # <<>> /\ value[1] # ""

\* a / b > p / q for counts a, b >= 0 in IEEE arithmetic: a / 0 is Infinity for
\* a > 0, and 0 / 0 is NaN, which compares false.
RatioAbove(a, b, p, q) == IF b = 0 THEN a > 0 ELSE a * q > p * b

\* Math.min((a / b) * 100, 100) in Milli for a > 0, b >= 0: a / 0 is Infinity,
\* which the cap turns into 100.
RatioCapped(a, b) ==
    IF b = 0 \/ a >= b THEN 100 * Milli ELSE (a * 100 * Milli) \div b

\* Math.min(hours / (days * HoursPerDay), 1) * 100 in Milli
SpanScaled(hours, days) ==
    IF hours >= days * HoursPerDay THEN 100 * Milli
    ELSE (hours * 100 * Milli) \div (days * HoursPerDay)

\* (last - first) / (1000 * 60 * 60 * 24) when both dates are set, in hours
ContributionSpan(pattern) ==
    IF pattern.firstContributionDate # <<>> /\ pattern.lastContributionDate # <<>>
    THEN pattern.lastContributionDate[1] - pattern.firstContributionDate[1]
    ELSE 0

detectSpamPatterns(pattern, config) ==
    [excessiveDailyPRs |-> pattern.maxPRsInSingleDay > config.maxPRsPerDay,
     excessiveHourlyActivity |-> FALSE,
     identicalCommitMessages |->
       pattern.identicalCommitMessages >= config.identicalMessageThreshold,
     automatedPatterns |-> FALSE,
     suspiciousTimePatterns |-> FALSE,
     trivialPRs |-> 0,
     whitespaceOnlyPRs |-> 0,
     singleCharacterPRs |-> 0,
     forkFarming |-> Len(pattern.forkOnlyRepos) > 0
                       /\ pattern.originalRepoContributions = 0,
     selfMergeFarming |-> RatioAbove(pattern.selfMergedPRs, pattern.totalPRs, 1, 2),
     repositoryFarming |-> pattern.uniqueRepositories > 50
                             /\ pattern.repositoriesWithMultiplePRs < 5]

calculateAccountAuthenticity(acct, pattern, config, clock) ==
    LET ageHours == clock - acct.createdAt
        baseAgeScore == SpanScaled(ageHours, 365)
        accountMaturity == SpanScaled(ContributionSpan(pattern), 180)
        profileCompleteness ==
          20 * Milli * Cardinality({f \in {"bio", "location", "company", "website",
                                          "email"} : Truthy(acct[f])})
        accountAgeScore ==
          IF ageHours < config.minAccountAgeDays * HoursPerDay
          THEN (baseAgeScore * 3) \div 10 ELSE baseAgeScore
        score == (accountAgeScore * 40 + accountMaturity * 40
                  + profileCompleteness * 20) \div Pct
    IN  [score |-> Min(Max(score, 0), 100 * Milli),
         breakdown |-> [accountAge |-> (ageHours * Milli) \div HoursPerDay,
                        accountMaturity |-> accountMaturity,
                        profileCompleteness |-> profileCompleteness]]

calculateContributionAuthenticity(pattern, config) ==
    IF pattern.totalPRs = 0
    THEN [score |-> 0,
          breakdown |-> [contributionSpan |-> 0, repositoryDiversity |-> 0,
                         maintainerTrust |-> 0, temporalConsistency |-> 0]]
    ELSE
      LET contributionSpan == ContributionSpan(pattern)
          spanScore == SpanScaled(contributionSpan, 365)
          repoDiversity == LogScaled(pattern.uniqueRepositories, 20)
          maintainerMerges == pattern.mergedPRs - pattern.selfMergedPRs
          maintainerTrust ==
            IF pattern.mergedPRs > 0
            THEN (maintainerMerges * 100 * Milli) \div pattern.mergedPRs ELSE 0
          consistency ==
            IF pattern.contributionMonths > 0 /\ contributionSpan > 0
            THEN RatioCapped(pattern.contributionMonths * HoursPerMonth,
                             contributionSpan)
            ELSE 0
          diversityPenalty ==
            IF pattern.uniqueRepositories < config.minUniqueRepos THEN 50 ELSE Pct
          score == (spanScore * 30 * Pct + repoDiversity * 30 * diversityPenalty
                    + maintainerTrust * 25 * Pct + consistency * 15 * Pct)
                     \div (Pct * Pct)
      IN  [score |-> Min(Max(score, 0), 100 * Milli),
           breakdown |-> [contributionSpan |-> (contributionSpan * Milli) \div HoursPerDay,
                          repositoryDiversity |-> repoDiversity,
                          maintainerTrust |-> maintainerTrust,
                          temporalConsistency |-> consistency]]

\* maintainerInteractionRate of calculateCollaborationSignals
maintainerInteractionRate(pattern) ==
    IF pattern.maintainerInteractions > 0
    THEN RatioCapped(pattern.maintainerInteractions, pattern.mergedPRs)
    ELSE 0

\* crossRepoScore of calculateCollaborationSignals
crossRepoScore(pattern) ==
    IF pattern.crossRepositoryCollaborations > 0
    THEN RatioCapped(pattern.crossRepositoryCollaborations, pattern.uniqueRepositories)
    ELSE 0

calculateCollaborationSignals(pattern) ==
    IF pattern.totalPRs = 0
    THEN [score |-> 0,
          breakdown |-> [uniqueCollaborators |-> 0, maintainerInteractions |-> 0,
                         crossRepoCollaborations |-> 0, reviewReciprocity |-> 0]]
    ELSE
      LET collaboratorScore == LogScaled(pattern.uniqueCollaborators, 50)
          totalReviews == pattern.reviewsGiven + pattern.reviewsReceived
          \* pattern.reviewsReceived || 1
          receivedOrOne == IF pattern.reviewsReceived = 0 THEN 1
                           ELSE pattern.reviewsReceived
          reciprocity ==
            IF totalReviews > 0
            THEN (Min(pattern.reviewsGiven, pattern.reviewsReceived) * 100 * Milli)
                   \div Max(pattern.reviewsGiven, receivedOrOne)
            ELSE 0
          score == (collaboratorScore * 30 + maintainerInteractionRate(pattern) * 30
                    + crossRepoScore(pattern) * 20 + reciprocity * 20) \div Pct
      IN  [score |-> Min(Max(score, 0), 100 * Milli),
           breakdown |-> [uniqueCollaborators |-> pattern.uniqueCollaborators,
                          maintainerInteractions |-> pattern.maintainerInteractions,
                          crossRepoCollaborations |->
                            pattern.crossRepositoryCollaborations,
                          reviewReciprocity |-> reciprocity]]

\* Sum of the penalties whose condition holds: a run of "if (cond) x -= penalty".
RECURSIVE Penalties(_)
Penalties(steps) ==
    IF Len(steps) = 0 THEN 0
    ELSE (IF steps[1][1] THEN steps[1][2] ELSE 0) + Penalties(Tail(steps))

calculateAntiGamingScore(pattern, spam, config) ==
    LET spamScore ==
          Max(100 - Penalties(<< <<spam.excessiveDailyPRs, 30>>,
                                 <<spam.identicalCommitMessages, 25>>,
                                 <<spam.forkFarming, 40>>,
                                 <<spam.selfMergeFarming, 30>>,
                                 <<spam.repositoryFarming, 20>> >>), 0)
        \* forkRatio = totalPRs > 0 ? forkPRs / totalPRs : 0
        forkRatioIsOne == pattern.totalPRs > 0 /\ pattern.forkPRs = pattern.totalPRs
        forkRatioAbove(p, q) ==
          pattern.totalPRs > 0 /\ pattern.forkPRs * q > p * pattern.totalPRs
        forkFarmingPenalty ==
          IF forkRatioIsOne /\ pattern.originalRepoContributions = 0 THEN 100
          ELSE IF forkRatioAbove(8, 10) THEN 70
          ELSE IF forkRatioAbove(5, 10) THEN 40
          ELSE 0
        patternAnomalies ==
          Max(100 - Penalties(<<
                <<pattern.averagePRsPerDay > 10 * Milli, 20>>,
                <<pattern.maxPRsInSingleDay > config.maxPRsPerDay, 30>>,
                <<pattern.identicalCommitMessages > 0, 15>> >>), 0)
        selfMergeRatioAbove(p, q) ==
          pattern.totalPRs > 0 /\ pattern.selfMergedPRs * q > p * pattern.totalPRs
        behavioralRedFlags ==
          Max(100 - Penalties(<<
                <<selfMergeRatioAbove(7, 10), 40>>,
                <<selfMergeRatioAbove(5, 10), 25>>,
                <<pattern.uniqueRepositories > 100
                    /\ pattern.repositoriesWithMultiplePRs < 10, 30>> >>), 0)
        score == ((spamScore * 40 + (100 - forkFarmingPenalty) * 30
                   + patternAnomalies * 20 + behavioralRedFlags * 10) * Milli)
                   \div Pct
    IN  [score |-> Min(Max(score, 0), 100 * Milli),
         breakdown |-> [spamDetection |-> spamScore * Milli,
                        forkFarmingPenalty |-> forkFarmingPenalty * Milli,
                        patternAnomalies |-> patternAnomalies * Milli,
                        behavioralRedFlags |-> behavioralRedFlags * Milli]]

\* fullConfig of calculateTrustScore
TrustFullConfig(config) ==
    [Spread(TRUST_DEFAULT_CONFIG, config) EXCEPT
       !.weights = Spread(TRUST_DEFAULT_CONFIG.weights, Opt(config, "weights"))]

\* calculateTrustScore(account, contributionPattern, config) called when the
\* clock shows `clock`
calculateTrustScore(acct, pattern, config, clock) ==
    LET fullConfig == TrustFullConfig(config)
        spam == detectSpamPatterns(pattern, fullConfig)
        accountAuth == calculateAccountAuthenticity(acct, pattern, fullConfig, clock)
        contributionAuth == calculateContributionAuthenticity(pattern, fullConfig)
        collaboration == calculateCollaborationSignals(pattern)
        antiGaming == calculateAntiGamingScore(pattern, spam, fullConfig)
        totalScore ==
          (accountAuth.score * fullConfig.weights.accountAuthenticity
           + contributionAuth.score * fullConfig.weights.contributionAuthenticity
           + collaboration.score * fullConfig.weights.collaborationSignals
           + antiGaming.score * fullConfig.weights.antiGamingScore) \div Pct
        contributionSpan == ContributionSpan(pattern)
        accountAgeHours == clock - acct.createdAt
        hasPRs == pattern.totalPRs > 0
        forkRatio ==
          IF hasPRs THEN (pattern.forkPRs * Milli) \div pattern.totalPRs ELSE 0
        originalRepoRatio ==
          IF hasPRs THEN (pattern.originalRepoContributions * Milli) \div pattern.totalPRs
          ELSE 0
        maintainerTrust ==
          IF pattern.mergedPRs > 0
          THEN ((pattern.mergedPRs - pattern.selfMergedPRs) * 100 * Milli)
                 \div pattern.mergedPRs
          ELSE 0
        signals ==
          [accountAge |-> (accountAgeHours * Milli) \div HoursPerDay,
           accountMaturity |-> accountAuth.breakdown.accountMaturity,
           contributionSpan |-> (contributionSpan * Milli) \div HoursPerDay,
           repositoryDiversity |-> contributionAuth.breakdown.repositoryDiversity,
           maintainerTrust |-> maintainerTrust,
           collaborationDepth |-> collaboration.score,
           forkContributionRatio |-> forkRatio,
           originalRepoContributionRatio |-> originalRepoRatio]
        redFlags ==
          Pushes(<<
            <<spam.forkFarming, "Fork-only contributions detected">>,
            <<spam.selfMergeFarming, "High rate of self-merged PRs">>,
            <<spam.excessiveDailyPRs, "Excessive daily PR activity">>,
            <<spam.repositoryFarming, "Repository farming pattern detected">>,
            <<hasPRs /\ pattern.forkPRs * 10 > 8 * pattern.totalPRs,
              "High fork contribution ratio">>,
            <<accountAgeHours < fullConfig.minAccountAgeDays * HoursPerDay,
              "Account too new">>,
            <<pattern.uniqueRepositories < fullConfig.minUniqueRepos,
              "Insufficient repository diversity">> >>)
        greenFlags ==
          Pushes(<<
            <<signals.maintainerTrust > 80 * Milli, "High maintainer trust">>,
            <<signals.repositoryDiversity > 70 * Milli, "Strong repository diversity">>,
            <<signals.collaborationDepth > 70 * Milli, "Active collaboration">>,
            <<contributionSpan > 365 * HoursPerDay,
              "Long-term consistent contributions">>,
            <<hasPRs /\ pattern.originalRepoContributions * 10 > 7 * pattern.totalPRs,
              "Primarily original repository contributions">> >>)
        isAuthentic ==
          totalScore >= 60 * Milli /\ Len(redFlags) < 3 /\ ~spam.forkFarming
        confidence ==
          Max(100 - Penalties(<<
                <<pattern.totalPRs < 5, 30>>,
                <<contributionSpan < 30 * HoursPerDay, 20>>,
                <<pattern.uniqueRepositories < 2, 25>> >>), 0)
    IN  [totalScore |-> Min(Max(totalScore, 0), 100 * Milli),
         isAuthentic |-> isAuthentic,
         confidence |-> confidence * Milli,
         components |-> [accountAuthenticity |-> accountAuth,
                         contributionAuthenticity |-> contributionAuth,
                         collaborationSignals |-> collaboration,
                         antiGamingScore |-> antiGaming],
         signals |-> signals,
         spamDetection |-> spam,
         redFlags |-> redFlags,
         greenFlags |-> greenFlags]

(***************************************************************************)
(* Inputs of the trust calculator                                          *)
(***************************************************************************)
\* Accounts created 10, 29 and 400 days before NowStart.
AccountCreationDates ==
    {DateOf(2025, 2, 25, 0), DateOf(2025, 2, 6, 0), DateOf(2024, 2, 1, 0)}

GitHubAccountOf(createdAt, profile) ==
    [username |-> ENGINEER, createdAt |-> createdAt, publicRepos |-> 10,
     followers |-> 50, following |-> 30, isVerified |-> FALSE] @@ profile

AccountProfiles ==
    { [bio |-> <<"Software engineer">>, location |-> <<"San Francisco">>,
       company |-> <<"Tech Corp">>, website |-> <<"https://example.com">>,
       email |-> <<"engineer@example.com">>],
      [bio |-> <<"">>, location |-> <<>>, company |-> <<>>, website |-> <<>>,
       email |-> <<"engineer@example.com">>] }

GitHubAccounts ==
    {GitHubAccountOf(d, p) : d \in AccountCreationDates, p \in AccountProfiles}

\* PR counts by target: mostly original, all forks with and without a
\* forkOnlyRepos list, mostly forks, few PRs, no PRs.
ForkPatterns ==
    { [totalPRs |-> 20, forkPRs |-> 3, originalRepoPRs |-> 17,
       forkOnlyRepos |-> <<>>, originalRepoContributions |-> 17],
      [totalPRs |-> 20, forkPRs |-> 20, originalRepoPRs |-> 0,
       forkOnlyRepos |-> <<"fork1", "fork2", "fork3">>,
       originalRepoContributions |-> 0],
      [totalPRs |-> 20, forkPRs |-> 20, originalRepoPRs |-> 0,
       forkOnlyRepos |-> <<>>, originalRepoContributions |-> 0],
      [totalPRs |-> 20, forkPRs |-> 18, originalRepoPRs |-> 2,
       forkOnlyRepos |-> <<>>, originalRepoContributions |-> 2],
      [totalPRs |-> 3, forkPRs |-> 0, originalRepoPRs |-> 3,
       forkOnlyRepos |-> <<>>, originalRepoContributions |-> 3],
      [totalPRs |-> 0, forkPRs |-> 0, originalRepoPRs |-> 0,
       forkOnlyRepos |-> <<>>, originalRepoContributions |-> 0] }

MergePatterns ==
    { [mergedPRs |-> 15, selfMergedPRs |-> 2],
      [mergedPRs |-> 15, selfMergedPRs |-> 12],
      [mergedPRs |-> 3, selfMergedPRs |-> 2],
      [mergedPRs |-> 0, selfMergedPRs |-> 0] }

RepositoryPatterns ==
    { [uniqueRepositories |-> 5, repositoriesWithMultiplePRs |-> 3],
      [uniqueRepositories |-> 1, repositoriesWithMultiplePRs |-> 1],
      [uniqueRepositories |-> 60, repositoriesWithMultiplePRs |-> 2],
      [uniqueRepositories |-> 0, repositoriesWithMultiplePRs |-> 0] }

\* Temporal patterns: six months of steady work, a burst of one week, no dates.
TemporalPatterns ==
    { [firstContributionDate |-> <<DateOf(2024, 9, 7, 0)>>,
       lastContributionDate |-> <<DateOf(2025, 3, 6, 0)>>,
       contributionDays |-> 60, contributionMonths |-> 6,
       averagePRsPerDay |-> 100, maxPRsInSingleDay |-> 2,
       identicalCommitMessages |-> 0],
      [firstContributionDate |-> <<DateOf(2025, 2, 27, 0)>>,
       lastContributionDate |-> <<DateOf(2025, 3, 6, 0)>>,
       contributionDays |-> 3, contributionMonths |-> 2,
       averagePRsPerDay |-> 12 * Milli, maxPRsInSingleDay |-> 25,
       identicalCommitMessages |-> 6],
      [firstContributionDate |-> <<>>, lastContributionDate |-> <<>>,
       contributionDays |-> 0, contributionMonths |-> 0,
       averagePRsPerDay |-> 0, maxPRsInSingleDay |-> 0,
       identicalCommitMessages |-> 0] }

CollaborationPatterns ==
    { [reviewsGiven |-> 10, reviewsReceived |-> 15, maintainerReviews |-> 12,
       uniqueCollaborators |-> 10, maintainerInteractions |-> 12,
       crossRepositoryCollaborations |-> 8],
      [reviewsGiven |-> 5, reviewsReceived |-> 0, maintainerReviews |-> 0,
       uniqueCollaborators |-> 60, maintainerInteractions |-> 4,
       crossRepositoryCollaborations |-> 2],
      [reviewsGiven |-> 0, reviewsReceived |-> 0, maintainerReviews |-> 0,
       uniqueCollaborators |-> 0, maintainerInteractions |-> 0,
       crossRepositoryCollaborations |-> 0] }

ContributionPatternOf(fork, merge, repos, temporal, collab) ==
    fork @@ merge @@ repos @@ temporal @@ collab
    @@ [openPRs |-> fork.totalPRs - merge.mergedPRs, closedPRs |-> 0,
        repositoriesWithMaintainerInteraction |-> Min(repos.uniqueRepositories, 4),
        issuesOpened |-> 8, issuesClosed |-> 6, issuesWithPRs |-> 5,
        commitTimePatterns |-> <<>>]

\* Patterns whose counts are consistent: merged PRs are among the PRs, and
\* self-merged ones among the merged.
ContributionPatterns ==
    {pattern \in {ContributionPatternOf(f, m, r, t, c) :
                    f \in ForkPatterns, m \in MergePatterns, r \in RepositoryPatterns,
                    t \in TemporalPatterns, c \in CollaborationPatterns} :
       pattern.mergedPRs <= pattern.totalPRs}

TrustConfigs == { <<>>, [minAccountAgeDays |-> 7, weights |-> [antiGamingScore |-> 30]] }

(***************************************************************************)
(* Specification of a call of calculateTrustScore while the wall clock     *)
(* runs.                                                                   *)
(***************************************************************************)
InitTrust ==
    /\ pc = "ready"
    /\ now = NowStart
    /\ account \in GitHubAccounts
    /\ contributionPattern \in ContributionPatterns
    /\ trustConfig \in TrustConfigs
    /\ trustResult = NoResult
    /\ compatibilityResult = NoResult /\ impactResult = NoResult
    /\ matchConfig = <<>> /\ matchResult = NoResult
    /\ githubActivity = <<>> /\ impactConfig = <<>> /\ prevResult = NoResult
    /\ engineerActivity = <<>> /\ roleQuery = <<>>
    /\ fetched = <<>> /\ normalizedPR = NoResult
    /\ NoFlow

CalculateTrust ==
    /\ pc = "ready"
    /\ trustResult' = calculateTrustScore(account, contributionPattern, trustConfig, now)
    /\ pc' = "done"
    /\ UNCHANGED <<now, compatibilityResult, impactResult, matchConfig, matchResult,
                   impactVars, prevResult, trustVars, compatVars, normVars, flowVars>>

NextTrust == Tick \/ CalculateTrust

SpecTrust == InitTrust /\ [][NextTrust]_vars

(***************************************************************************)
(* Properties of the trust calculator                                      *)
(***************************************************************************)
TrustDone == pc = "done" /\ trustResult # NoResult /\ contributionPattern # <<>>

\* A pattern with at least one PR, all of them fork PRs, and no contribution
\* to an original repository.
AllForkPRs(pattern) ==
    /\ pattern.totalPRs >= 1
    /\ pattern.forkPRs = pattern.totalPRs
    /\ pattern.originalRepoContributions = 0

\* C7: for a pattern with at least one PR whose PRs are all fork PRs and with
\* originalRepoContributions = 0, whatever its other fields, the trust result
\* has spamDetection.forkFarming = true, isAuthentic = false and the red flag
\* 'Fork-only contributions detected'.
C7_ForkOnlyPatternIsFlagged ==
    (TrustDone /\ AllForkPRs(contributionPattern)) =>
        /\ trustResult.spamDetection.forkFarming
        /\ ~trustResult.isAuthentic
        /\ Includes(trustResult.redFlags, "Fork-only contributions detected")

\* A pattern without contributions: no PR and no contribution date.
ZeroContributions(pattern) ==
    /\ pattern.totalPRs = 0
    /\ pattern.firstContributionDate = <<>>
    /\ pattern.lastContributionDate = <<>>

TRUST_COMPONENTS ==
    {"accountAuthenticity", "contributionAuthenticity", "collaborationSignals",
     "antiGamingScore"}

\* C11: for a contribution pattern with zero contributions (totalPRs = 0 and
\* no contribution dates) and any account, all four component scores of the
\* trust result are 0, isAuthentic is false and confidence is below 100.
C11_ZeroContributionsScoreZero ==
    (TrustDone /\ ZeroContributions(contributionPattern)) =>
        /\ \A name \in TRUST_COMPONENTS : trustResult.components[name].score = 0
        /\ ~trustResult.isAuthentic
        /\ trustResult.confidence < 100 * Milli

\* C15: in the trust calculator a ratio with denominator 0 gives a signal of
\* 0: the maintainer-interaction ratio when mergedPRs = 0, the cross-repo
\* collaboration ratio when uniqueRepositories = 0, the review reciprocity when
\* no review was given or received, and the self-merge ratio when totalPRs = 0.
C15_ZeroDenominatorGivesZero ==
    TrustDone =>
        /\ (contributionPattern.totalPRs > 0 /\ contributionPattern.mergedPRs = 0)
              => maintainerInteractionRate(contributionPattern) = 0
        /\ (contributionPattern.totalPRs > 0
              /\ contributionPattern.uniqueRepositories = 0)
              => crossRepoScore(contributionPattern) = 0
        /\ (contributionPattern.reviewsGiven = 0
              /\ contributionPattern.reviewsReceived = 0)
              => trustResult.components.collaborationSignals.breakdown
                   .reviewReciprocity = 0
        /\ contributionPattern.totalPRs = 0
              => ~trustResult.spamDetection.selfMergeFarming

\* The account was younger than minAccountAgeDays of the configuration when
\* the score was calculated; signals.accountAge is its age in days then.
AccountTooNew ==
    trustResult.signals.accountAge
      < TrustFullConfig(trustConfig).minAccountAgeDays * Milli

\* C16: for an account younger than minAccountAgeDays (default 30 days) and
\* any contribution pattern, the trust result has totalScore < 60,
\* isAuthentic = false and the red flag 'Account too new'.
C16_NewAccountScoresLow ==
    (TrustDone /\ AccountTooNew) =>
        /\ trustResult.totalScore < 60 * Milli
        /\ ~trustResult.isAuthentic
        /\ Includes(trustResult.redFlags, "Account too new")

(***************************************************************************)
(* Strings and JavaScript numbers                                          *)
(***************************************************************************)
UPPER_CASE == "ABCDEFGHIJKLMNOPQRSTUVWXYZ"
LOWER_CASE == "abcdefghijklmnopqrstuvwxyz"

\* The lower-case letter of each upper-case letter.
LowerOf ==
    [c \in {SubSeq(UPPER_CASE, i, i) : i \in 1..Len(UPPER_CASE)} |->
       LET i == CHOOSE i \in 1..Len(UPPER_CASE) : SubSeq(UPPER_CASE, i, i) = c
       IN  SubSeq(LOWER_CASE, i, i)]

\* text.toLowerCase()
RECURSIVE ToLowerCase(_)
ToLowerCase(text) ==
    IF Len(text) = 0 THEN ""
    ELSE LET c == SubSeq(text, 1, 1)
         IN  (IF c \in DOMAIN LowerOf THEN LowerOf[c] ELSE c)
             \o ToLowerCase(SubSeq(text, 2, Len(text)))

\* text.includes(part)
StrIncludes(text, part) ==
    \E i \in 1..(Len(text) - Len(part) + 1) : SubSeq(text, i, i + Len(part) - 1) = part

\* parts.some(part => text.includes(part))
SomeIncluded(parts, text) == \E i \in 1..Len(parts) : StrIncludes(text, parts[i])

\* text.lastIndexOf('.'), 0-based, -1 when there is none
LastIndexOfDot(text) ==
    LET at == {i \in 1..Len(text) : SubSeq(text, i, i) = "."}
    IN  IF at = {} THEN 0 - 1 ELSE (CHOOSE i \in at : \A j \in at : j <= i) - 1

\* text.substring(start): a negative start counts as 0
Substring(text, start) == SubSeq(text, Max(start, 0) + 1, Len(text))

\* parts.join(separator)
RECURSIVE JoinWith(_, _)
JoinWith(parts, separator) ==
    IF Len(parts) = 0 THEN ""
    ELSE IF Len(parts) = 1 THEN parts[1]
    ELSE parts[1] \o separator \o JoinWith(Tail(parts), separator)

\* value || '' for a string | null
OrEmpty(value) == IF value = <<>> THEN "" ELSE value[1]

\* The concatenation of a list of lists.
RECURSIVE Concat(_)
Concat(lists) == IF Len(lists) = 0 THEN <<>> ELSE lists[1] \o Concat(Tail(lists))

\* Array.from(new Set(list)): the first occurrence of each element, in order
RECURSIVE Dedup(_)
Dedup(list) ==
    IF Len(list) = 0 THEN <<>>
    ELSE <<list[1]>> \o Dedup(SelectSeq(Tail(list), LAMBDA x : x # list[1]))

\* A JavaScript number that may be NaN.  Finite values are fixed-point integers.
NaN == [nan |-> TRUE, value |-> 0]
Finite(x) == [nan |-> FALSE, value |-> x]
\* (a / b) * 100 in Milli where 0 <= a and a = 0 whenever b = 0: 0 / 0 is NaN
Percentage(a, b) == IF b = 0 THEN NaN ELSE Finite((a * 100 * Milli) \div b)
\* Math.min and Math.max return NaN when an argument is NaN
MathMin(x, y) == IF x.nan \/ y.nan THEN NaN ELSE Finite(Min(x.value, y.value))
MathMax(x, y) == IF x.nan \/ y.nan THEN NaN ELSE Finite(Max(x.value, y.value))
Plus(x, y) == IF x.nan \/ y.nan THEN NaN ELSE Finite(x.value + y.value)
Minus(x, y) == IF x.nan \/ y.nan THEN NaN ELSE Finite(x.value - y.value)
\* x * factor, the factor in Pct: the product is in Milli * Pct
Times(x, factor) == IF x.nan THEN NaN ELSE Finite(x.value * factor)
\* a value in Milli * Pct back in Milli
PerPct(x) == IF x.nan THEN NaN ELSE Finite(x.value \div Pct)
\* x >= bound and x > bound: every comparison with NaN is false
AtLeast(x, bound) == ~x.nan /\ x.value >= bound
Above(x, bound) == ~x.nan /\ x.value > bound

(***************************************************************************)
(* Compatibility calculator                                                *)
(***************************************************************************)
ROLE_TECHNOLOGY_INDICATORS ==
    "backend" :>
      [languages |-> <<"python", "java", "go", "rust", "ruby", "php", "scala",
                       "kotlin", "c#", "c++">>,
       fileExtensions |-> <<".py", ".java", ".go", ".rs", ".rb", ".php", ".scala",
                            ".kt", ".cs", ".cpp">>,
       keywords |-> <<"api", "server", "backend", "service", "microservice", "rest",
                      "graphql", "grpc", "database", "orm">>,
       architecturePatterns |-> <<"microservices", "monolith", "api-gateway",
                                  "service-mesh", "event-driven">>,
       negativeIndicators |-> <<"react", "vue", "angular", "css", "html", "frontend",
                                "ui-component">>]
    @@ "frontend" :>
      [languages |-> <<"javascript", "typescript", "html", "css", "scss", "sass",
                       "less">>,
       fileExtensions |-> <<".js", ".jsx", ".ts", ".tsx", ".html", ".css", ".scss",
                            ".sass", ".less", ".vue">>,
       keywords |-> <<"react", "vue", "angular", "component", "ui", "frontend",
                      "client", "browser", "dom">>,
       architecturePatterns |-> <<"spa", "ssr", "component-library", "design-system",
                                  "pwa">>,
       negativeIndicators |-> <<"database", "server", "api-server", "microservice",
                                "backend-service">>]
    @@ "fullstack" :>
      [languages |-> <<"javascript", "typescript", "python", "java", "ruby", "php">>,
       fileExtensions |-> <<".js", ".jsx", ".ts", ".tsx", ".py", ".java", ".rb",
                            ".php">>,
       keywords |-> <<"fullstack", "full-stack", "api", "component", "server",
                      "client">>,
       architecturePatterns |-> <<"monorepo", "fullstack-app", "isomorphic">>,
       negativeIndicators |-> <<>>]
    @@ "devops" :>
      [languages |-> <<"yaml", "python", "bash", "shell", "groovy">>,
       fileExtensions |-> <<".yaml", ".yml", ".tf", ".tfvars", ".sh", ".py",
                            ".groovy", ".jenkinsfile">>,
       keywords |-> <<"docker", "kubernetes", "ci/cd", "terraform", "ansible",
                      "pipeline", "deployment", "infrastructure">>,
       architecturePatterns |-> <<"infrastructure-as-code", "ci-cd",
                                  "containerization", "orchestration">>,
       negativeIndicators |-> <<"ui-component", "frontend", "react-component">>]
    @@ "mobile" :>
      [languages |-> <<"swift", "kotlin", "java", "dart", "objective-c">>,
       fileExtensions |-> <<".swift", ".kt", ".java", ".dart", ".m", ".mm",
                            ".xcodeproj">>,
       keywords |-> <<"ios", "android", "mobile", "app", "react-native", "flutter",
                      "xcode">>,
       architecturePatterns |-> <<"mobile-app", "native-app", "cross-platform">>,
       negativeIndicators |-> <<"web-server", "backend-api", "microservice">>]
    @@ "data-engineer" :>
      [languages |-> <<"python", "sql", "scala", "java">>,
       fileExtensions |-> <<".py", ".sql", ".scala", ".java", ".ipynb">>,
       keywords |-> <<"data", "etl", "pipeline", "spark", "hadoop", "warehouse",
                      "analytics", "big-data">>,
       architecturePatterns |-> <<"data-pipeline", "etl", "data-warehouse",
                                  "batch-processing">>,
       negativeIndicators |-> <<"ui", "frontend", "component">>]
    @@ "security" :>
      [languages |-> <<"python", "go", "rust", "c", "c++">>,
       fileExtensions |-> <<".py", ".go", ".rs", ".c", ".cpp">>,
       keywords |-> <<"security", "vulnerability", "penetration", "encryption",
                      "auth", "oauth", "jwt", "ssl", "tls">>,
       architecturePatterns |-> <<"security-audit", "penetration-test",
                                  "vulnerability-scan">>,
       negativeIndicators |-> <<>>]
    @@ "ml-engineer" :>
      [languages |-> <<"python", "r", "julia">>,
       fileExtensions |-> <<".py", ".r", ".jl", ".ipynb", ".pkl">>,
       keywords |-> <<"machine-learning", "ml", "tensorflow", "pytorch", "model",
                      "training", "neural", "deep-learning">>,
       architecturePatterns |-> <<"ml-pipeline", "model-training",
                                  "feature-engineering">>,
       negativeIndicators |-> <<"ui", "frontend", "component">>]
    @@ "sre" :>
      [languages |-> <<"python", "go", "yaml", "bash">>,
       fileExtensions |-> <<".py", ".go", ".yaml", ".yml", ".sh", ".tf">>,
       keywords |-> <<"reliability", "monitoring", "alerting", "slo", "sla",
                      "incident", "oncall", "observability">>,
       architecturePatterns |-> <<"monitoring", "alerting", "incident-response",
                                  "reliability-engineering">>,
       negativeIndicators |-> <<"ui-component", "frontend">>]
    @@ "platform-engineer" :>
      [languages |-> <<"go", "python", "yaml", "rust">>,
       fileExtensions |-> <<".go", ".py", ".yaml", ".yml", ".rs">>,
       keywords |-> <<"platform", "infrastructure", "tooling", "developer-experience",
                      "internal-tools">>,
       architecturePatterns |-> <<"platform-as-a-service", "internal-platform",
                                  "developer-tooling">>,
       negativeIndicators |-> <<"customer-facing", "ui-component">>]

\* `${pr.title} ${pr.body || ''}`.toLowerCase(), also for an issue
TitleAndBody(item) == ToLowerCase(item.title \o " " \o OrEmpty(item.body))
\* `${repo.description || ''} ${repo.topics.join(' ')}`.toLowerCase()
RepoText(repo) ==
    ToLowerCase(OrEmpty(repo.description) \o " " \o JoinWith(repo.topics, " "))
\* All files of all PRs, in order.
AllFilesChanged(activity) ==
    Concat([i \in 1..Len(activity.prs) |-> activity.prs[i].filesChanged])

analyzeFileChanges(files, role) ==
    LET indicators == ROLE_TECHNOLOGY_INDICATORS[role]
        ext(file) == ToLowerCase(file.fileExtension)
        byExtension(file) == Includes(indicators.fileExtensions, ext(file))
        byKeyword(file) ==
          LET path == ToLowerCase(file.filePath)
          IN  \E k \in 1..Len(indicators.keywords) :
                \/ StrIncludes(path, indicators.keywords[k])
                \/ StrIncludes(file.directory, indicators.keywords[k])
        negative(file) ==
          LET path == ToLowerCase(file.filePath)
          IN  \E k \in 1..Len(indicators.negativeIndicators) :
                \/ StrIncludes(path, indicators.negativeIndicators[k])
                \/ StrIncludes(file.directory, indicators.negativeIndicators[k])
    IN  [relevantFiles |->
           Cardinality({i \in 1..Len(files) :
                          byExtension(files[i]) \/ byKeyword(files[i])}),
         totalFiles |-> Len(files),
         matchedTechnologies |->
           Dedup(Concat([i \in 1..Len(files) |->
                           IF byExtension(files[i]) THEN <<ext(files[i])>> ELSE <<>>])),
         mismatchedTechnologies |->
           Dedup(Concat([i \in 1..Len(files) |->
                           IF negative(files[i]) THEN <<ext(files[i])>> ELSE <<>>]))]

calculateTechnologyStackMatch(activity, role) ==
    LET indicators == ROLE_TECHNOLOGY_INDICATORS[role]
        files == AllFilesChanged(activity)
        fromPR(pr) ==
          Concat([i \in 1..Len(pr.filesChanged) |->
                    LET ext == ToLowerCase(pr.filesChanged[i].fileExtension)
                    IN  IF Includes(indicators.fileExtensions, ext)
                        THEN <<ext>> ELSE <<>>])
          \o SelectSeq(pr.languages,
                       LAMBDA lang : Includes(indicators.languages, ToLowerCase(lang)))
        fromRepo(repo) ==
          Concat([i \in 1..Len(repo.languages) |->
                    LET entry == repo.languages[i]
                    IN  IF entry.percentage > 10
                           /\ Includes(indicators.languages, ToLowerCase(entry.language))
                        THEN <<entry.language>> ELSE <<>>])
          \o (IF SomeIncluded(indicators.keywords, RepoText(repo))
              THEN <<"repository-keyword">> ELSE <<>>)
        matched ==
          Dedup(Concat([i \in 1..Len(activity.prs) |-> fromPR(activity.prs[i])])
                \o Concat([i \in 1..Len(activity.repositories) |->
                             fromRepo(activity.repositories[i])]))
        mismatched ==
          Dedup(Concat([i \in 1..Len(files) |->
                  IF SomeIncluded(indicators.negativeIndicators,
                                  ToLowerCase(files[i].filePath))
                  THEN <<ToLowerCase(files[i].fileExtension)>> ELSE <<>>]))
        baseScore == Min(Len(matched) * 15, 100)
        penalty == Min(Len(mismatched) * 10, 50)
    IN  [score |-> Max(baseScore - penalty, 0) * Milli,
         matched |-> matched,
         mismatched |-> mismatched]

calculateDomainContributionDepth(activity, role) ==
    LET indicators == ROLE_TECHNOLOGY_INDICATORS[role]
        increments(pr) ==
          LET analysis == analyzeFileChanges(pr.filesChanged, role)
              \* relevanceRatio > 0.5
              mostlyRelevant == analysis.totalFiles > 0
                                  /\ 2 * analysis.relevantFiles > analysis.totalFiles
              byText == SomeIncluded(indicators.keywords, TitleAndBody(pr))
          IN  (IF mostlyRelevant THEN 1 ELSE 0) + (IF byText THEN 1 ELSE 0)
        relevantPRs ==
          SumSeq([i \in 1..Len(activity.prs) |-> increments(activity.prs[i])])
        totalPRs == Len(activity.prs)
    IN  [score |-> IF totalPRs > 0 THEN (relevantPRs * 100 * Milli) \div totalPRs ELSE 0,
         relevantPRs |-> relevantPRs,
         totalPRs |-> totalPRs]

calculateArchitecturePatternMatch(activity, role) ==
    LET indicators == ROLE_TECHNOLOGY_INDICATORS[role]
        fromPR(pr) ==
          LET prText == TitleAndBody(pr)
              filePaths ==
                JoinWith([i \in 1..Len(pr.filesChanged) |->
                            ToLowerCase(pr.filesChanged[i].filePath)], " ")
          IN  SelectSeq(indicators.architecturePatterns,
                        LAMBDA pattern : \/ StrIncludes(prText, pattern)
                                         \/ StrIncludes(filePaths, pattern))
              \o Pushes(<< <<pr.isAPIChange, "api-design">>,
                           <<pr.isInfrastructureChange, "infrastructure">>,
                           <<pr.isDatabaseChange, "data-layer">> >>)
        fromRepo(repo) ==
          LET repoText == RepoText(repo)
          IN  SelectSeq(indicators.architecturePatterns,
                        LAMBDA pattern : StrIncludes(repoText, pattern))
        detectedPatterns ==
          Dedup(Concat([i \in 1..Len(activity.prs) |-> fromPR(activity.prs[i])])
                \o Concat([i \in 1..Len(activity.repositories) |->
                             fromRepo(activity.repositories[i])]))
    IN  [score |-> Min(Len(detectedPatterns) * 20, 100) * Milli,
         patterns |-> detectedPatterns]

calculateFileTypeAlignment(activity, role) ==
    LET indicators == ROLE_TECHNOLOGY_INDICATORS[role]
        files == AllFilesChanged(activity)
        totalFiles == Len(files)
        relevantFiles ==
          Cardinality({i \in 1..totalFiles :
             Includes(indicators.fileExtensions, ToLowerCase(files[i].fileExtension))})
    IN  IF totalFiles > 0 THEN (relevantFiles * 100 * Milli) \div totalFiles ELSE 0

calculateActivityTypeMatch(activity, role) ==
    LET indicators == ROLE_TECHNOLOGY_INDICATORS[role]
        totalActivities == Len(activity.prs) + Len(activity.issues)
        isRelevant(pr) ==
          \/ role = "backend" /\ (pr.isAPIChange \/ pr.isDatabaseChange)
          \/ role = "frontend" /\ pr.isUIChange
          \/ role = "devops" /\ pr.isInfrastructureChange
          \/ role = "devops" /\ pr.isConfigChange
          \/ SomeIncluded(indicators.keywords, TitleAndBody(pr))
        fromIssue(issue) ==
          (IF SomeIncluded(indicators.keywords, TitleAndBody(issue)) THEN 1 ELSE 0)
          + (IF role = "devops" /\ issue.isInfrastructure THEN 1
             ELSE IF role = "security" /\ issue.isSecurity THEN 1
             ELSE 0)
        relevantActivities ==
          Cardinality({i \in 1..Len(activity.prs) : isRelevant(activity.prs[i])})
          + SumSeq([i \in 1..Len(activity.issues) |-> fromIssue(activity.issues[i])])
    IN  IF totalActivities > 0
        THEN (relevantActivities * 100 * Milli) \div totalActivities ELSE 0

calculateRepositoryTypeMatch(activity, role) ==
    LET indicators == ROLE_TECHNOLOGY_INDICATORS[role]
        ownRepos == SelectSeq(activity.repositories, LAMBDA repo : ~repo.isFork)
        isRelevant(repo) ==
          \/ Includes(indicators.languages, ToLowerCase(repo.primaryLanguage))
          \/ SomeIncluded(indicators.keywords, RepoText(repo))
        relevantRepos == Cardinality({i \in 1..Len(ownRepos) : isRelevant(ownRepos[i])})
        totalRepos == Len(ownRepos)
    IN  IF totalRepos > 0 THEN (relevantRepos * 100 * Milli) \div totalRepos ELSE 0

calculateReviewDomainExpertise(activity, role) ==
    LET indicators == ROLE_TECHNOLOGY_INDICATORS[role]
        extensionOf(file) == ToLowerCase(Substring(file, LastIndexOfDot(file)))
        fromReview(review) ==
          (IF \E i \in 1..Len(review.reviewedFiles) :
                Includes(indicators.fileExtensions, extensionOf(review.reviewedFiles[i]))
           THEN 1 ELSE 0)
          + (IF \E i \in 1..Len(review.languages) :
                  Includes(indicators.languages, ToLowerCase(review.languages[i]))
             THEN 1 ELSE 0)
        relevantReviews ==
          SumSeq([i \in 1..Len(activity.codeReviews) |->
                    fromReview(activity.codeReviews[i])])
        totalReviews == Len(activity.codeReviews)
    IN  IF totalReviews > 0 THEN (relevantReviews * 100 * Milli) \div totalReviews ELSE 0

\* Negative signals whose architecture penalty is inverted: charged when
\* patterns were detected.
calculateNegativeSignalsInverted(activity, role) ==
    LET indicators == ROLE_TECHNOLOGY_INDICATORS[role]
        files == AllFilesChanged(activity)
        mismatchCount ==
          Cardinality({i \in 1..Len(files) :
             SomeIncluded(indicators.negativeIndicators, ToLowerCase(files[i].filePath))})
        technologyMismatch ==
          MathMin(Percentage(mismatchCount, Len(activity.prs)), Finite(100 * Milli))
        depthAnalysis == calculateDomainContributionDepth(activity, role)
        archAnalysis == calculateArchitecturePatternMatch(activity, role)
        techAnalysis == calculateTechnologyStackMatch(activity, role)
    IN  [technologyMismatch |-> technologyMismatch,
         domainContradiction |-> technologyMismatch,
         insufficientDepth |-> IF depthAnalysis.totalPRs < 5 THEN 100 * Milli ELSE 0,
         architectureMismatch |->
           IF Len(archAnalysis.patterns) = 0 THEN 0 ELSE 50 * Milli,
         technologyOverweight |->
           IF Len(techAnalysis.mismatched) > Len(techAnalysis.matched)
           THEN 70 * Milli ELSE 0]

calculateNegativeSignals(activity, role) ==
    LET indicators == ROLE_TECHNOLOGY_INDICATORS[role]
        files == AllFilesChanged(activity)
        mismatchCount ==
          Cardinality({i \in 1..Len(files) :
             SomeIncluded(indicators.negativeIndicators, ToLowerCase(files[i].filePath))})
        technologyMismatch ==
          MathMin(Percentage(mismatchCount, Len(activity.prs)), Finite(100 * Milli))
        depthAnalysis == calculateDomainContributionDepth(activity, role)
        archAnalysis == calculateArchitecturePatternMatch(activity, role)
        techAnalysis == calculateTechnologyStackMatch(activity, role)
    IN  [technologyMismatch |-> technologyMismatch,
         domainContradiction |-> technologyMismatch,
         insufficientDepth |-> IF depthAnalysis.totalPRs < 5 THEN 100 * Milli ELSE 0,
         architectureMismatch |->
           IF Len(archAnalysis.patterns) = 0 THEN 50 * Milli ELSE 0,
         technologyOverweight |->
           IF Len(techAnalysis.mismatched) > Len(techAnalysis.matched)
           THEN 70 * Milli ELSE 0]

getRoleWeights(role) ==
    LET baseWeights ==
          [technologyStackMatch |-> 20, domainContributionDepth |-> 25,
           architecturePatternMatch |-> 15, fileTypeAlignment |-> 15,
           activityTypeMatch |-> 10, repositoryTypeMatch |-> 10,
           reviewDomainExpertise |-> 5]
    IN  IF role = "backend"
        THEN Spread(baseWeights,
                    [technologyStackMatch |-> 25, domainContributionDepth |-> 30,
                     architecturePatternMatch |-> 20, fileTypeAlignment |-> 15,
                     activityTypeMatch |-> 10])
        ELSE IF role = "frontend"
        THEN Spread(baseWeights,
                    [fileTypeAlignment |-> 25, technologyStackMatch |-> 25,
                     domainContributionDepth |-> 25, activityTypeMatch |-> 15])
        ELSE IF role = "devops"
        THEN Spread(baseWeights,
                    [activityTypeMatch |-> 25, architecturePatternMatch |-> 25,
                     technologyStackMatch |-> 20, domainContributionDepth |-> 20])
        ELSE baseWeights

\* The second half of calculateCompatibilityScore: the result assembled from
\* the role and the values of the signal calculators.
CompatibilityResultFrom(role, techStack, depth, architecture, signals, negativeSignals) ==
    LET contributionDepth == depth
        weights == getRoleWeights(role)
        \* sums of score * weight, in Milli * Pct
        weighted ==
          signals.technologyStackMatch * weights.technologyStackMatch
          + signals.domainContributionDepth * weights.domainContributionDepth
          + signals.architecturePatternMatch * weights.architecturePatternMatch
          + signals.fileTypeAlignment * weights.fileTypeAlignment
          + signals.activityTypeMatch * weights.activityTypeMatch
          + signals.repositoryTypeMatch * weights.repositoryTypeMatch
          + signals.reviewDomainExpertise * weights.reviewDomainExpertise
        penalties ==
          Plus(Plus(Times(negativeSignals.technologyMismatch, 15),
                    Times(negativeSignals.domainContradiction, 10)),
               Finite(negativeSignals.insufficientDepth * 20
                      + negativeSignals.architectureMismatch * 10
                      + negativeSignals.technologyOverweight * 15))
        totalScore ==
          MathMax(Finite(0),
                  MathMin(Finite(100 * Milli),
                          PerPct(Minus(Finite(weighted), penalties))))
        compatibilityLevel ==
          IF AtLeast(totalScore, 75 * Milli) THEN "high"
          ELSE IF AtLeast(totalScore, 50 * Milli) THEN "medium"
          ELSE IF AtLeast(totalScore, 25 * Milli) THEN "low"
          ELSE "poor"
        strengths ==
          Pushes(<<
            <<techStack.score > 70 * Milli,
              "Strong technology stack match with "
                \o ToString(Len(techStack.matched)) \o " relevant technologies">>,
            <<contributionDepth.score > 70 * Milli,
              "Deep domain contributions: " \o ToString(contributionDepth.relevantPRs)
                \o "/" \o ToString(contributionDepth.totalPRs) \o " relevant PRs">>,
            <<Len(architecture.patterns) > 0,
              "Recognized architecture patterns: "
                \o Join(SliceFirst(architecture.patterns, 3))>> >>)
        weaknesses ==
          Pushes(<<
            <<techStack.score <= 70 * Milli /\ techStack.score < 30 * Milli,
              "Limited technology stack alignment">>,
            <<Above(negativeSignals.technologyMismatch, 50 * Milli),
              "Significant contributions in mismatched technologies">>,
            <<negativeSignals.insufficientDepth > 0,
              "Insufficient contribution depth in role domain">> >>)
        evidence ==
          Pushes(<<
            <<techStack.score > 70 * Milli,
              [type |-> "Technology Stack",
               description |-> "Matched technologies: "
                                 \o Join(SliceFirst(techStack.matched, 5)),
               score |-> techStack.score]>>,
            <<contributionDepth.score > 70 * Milli,
              [type |-> "Contribution Depth",
               description |-> ToString(contributionDepth.relevantPRs) \o " out of "
                                 \o ToString(contributionDepth.totalPRs)
                                 \o " PRs are role-relevant",
               score |-> contributionDepth.score]>>,
            <<Len(architecture.patterns) > 0,
              [type |-> "Architecture Patterns",
               description |-> "Detected patterns: " \o Join(architecture.patterns),
               score |-> architecture.score]>> >>)
    IN  [totalScore |-> totalScore,
         compatibilityLevel |-> compatibilityLevel,
         signals |-> signals,
         negativeSignals |-> negativeSignals,
         explanation |-> [role |-> role, strengths |-> strengths,
                          weaknesses |-> weaknesses, evidence |-> evidence],
         breakdown |->
           [technologyStack |-> [matchedTechnologies |-> techStack.matched,
                                 mismatchedTechnologies |-> techStack.mismatched,
                                 score |-> techStack.score],
            contributionDepth |-> [relevantPRs |-> contributionDepth.relevantPRs,
                                   totalPRs |-> contributionDepth.totalPRs,
                                   score |-> contributionDepth.score],
            architecturePatterns |-> [detectedPatterns |-> architecture.patterns,
                                      score |-> architecture.score]]]

\* The element of a one-element set.
TheOnly(set) == CHOOSE element \in set : TRUE

\* Each calculator is called once and its value is used from then on.
calculateCompatibilityScore(activity, query) ==
    TheOnly({
      CompatibilityResultFrom(
        query.role, techStack, contributionDepth, architecture,
        [technologyStackMatch |-> techStack.score,
         domainContributionDepth |-> contributionDepth.score,
         architecturePatternMatch |-> architecture.score,
         fileTypeAlignment |-> fileType,
         activityTypeMatch |-> activityType,
         repositoryTypeMatch |-> repositoryType,
         reviewDomainExpertise |-> reviewExpertise],
        negativeSignals) :
          techStack \in {calculateTechnologyStackMatch(activity, query.role)},
          contributionDepth \in {calculateDomainContributionDepth(activity, query.role)},
          architecture \in {calculateArchitecturePatternMatch(activity, query.role)},
          fileType \in {calculateFileTypeAlignment(activity, query.role)},
          activityType \in {calculateActivityTypeMatch(activity, query.role)},
          repositoryType \in {calculateRepositoryTypeMatch(activity, query.role)},
          reviewExpertise \in {calculateReviewDomainExpertise(activity, query.role)},
          negativeSignals \in {calculateNegativeSignals(activity, query.role)} })

(***************************************************************************)
(* Inputs of the compatibility calculator                                  *)
(***************************************************************************)
MaxAnalysedPRs == 2    \* longest prs list drawn from the pool of PRs

FileChangeOf(filePath, fileExtension, directory) ==
    [filePath |-> filePath, fileExtension |-> fileExtension, changeType |-> "modified",
     linesAdded |-> 20, linesDeleted |-> 5, directory |-> directory]

\* A PRAnalysis; `changes` is the set of its is...Change flags that are true.
PRAnalysisOf(title, body, filesChanged, languages, changes) ==
    [id |-> title, repository |-> "repo1", title |-> title, body |-> body,
     filesChanged |-> filesChanged,
     languages |-> languages,
     directories |-> Dedup([i \in 1..Len(filesChanged) |-> filesChanged[i].directory]),
     isInfrastructureChange |-> "infrastructure" \in changes,
     isAPIChange |-> "api" \in changes,
     isUIChange |-> "ui" \in changes,
     isDatabaseChange |-> "database" \in changes,
     isConfigChange |-> "config" \in changes,
     isTestChange |-> "test" \in changes,
     isDocumentationChange |-> "documentation" \in changes]

\* A backend PR, a frontend PR, an infrastructure PR and a PR without files.
PRAnalyses ==
    { PRAnalysisOf("Add REST API endpoint for users",
                   <<"Event-driven user endpoint with authentication">>,
                   <<FileChangeOf("src/api/users.py", ".py", "src/api"),
                     FileChangeOf("src/models/user.py", ".py", "src/models")>>,
                   <<"python">>, {"api", "database"}),
      PRAnalysisOf("Fix Button layout", <<>>,
                   <<FileChangeOf("web/react/Button.tsx", ".tsx", "web/react"),
                     FileChangeOf("web/react/button.css", ".css", "web/react")>>,
                   <<"TypeScript">>, {"ui"}),
      PRAnalysisOf("Deployment pipeline for staging", <<"terraform plan">>,
                   <<FileChangeOf("infra/main.tf", ".tf", "infra"),
                     FileChangeOf("ci/Deploy.YML", ".YML", "ci")>>,
                   <<"yaml">>, {"infrastructure", "config"}),
      PRAnalysisOf("Update changelog", <<"">>, <<>>, <<>>, {"documentation"}) }

\* Five PRs, enough for the contribution-depth threshold.
FivePRs ==
    LET pr(title) == CHOOSE p \in PRAnalyses : p.title = title
    IN  <<pr("Add REST API endpoint for users"), pr("Update changelog"),
          pr("Deployment pipeline for staging"), pr("Fix Button layout"),
          pr("Update changelog")>>

PRAnalysisLists ==
    UNION {[1..n -> PRAnalyses] : n \in 0..MaxAnalysedPRs} \cup {FivePRs}

IssueAnalysisOf(title, body, kinds) ==
    [id |-> title, repository |-> "repo1", title |-> title, body |-> body,
     labels |-> <<>>,
     isBug |-> "bug" \in kinds, isFeature |-> "feature" \in kinds,
     isInfrastructure |-> "infrastructure" \in kinds,
     isSecurity |-> "security" \in kinds]

IssueAnalysisLists ==
    { <<>>,
      <<IssueAnalysisOf("Docker build fails in pipeline", <<>>,
                        {"bug", "infrastructure"})>>,
      <<IssueAnalysisOf("Typo in docs", <<>>, {"bug"}),
        IssueAnalysisOf("Docker build fails in pipeline", <<>>,
                        {"bug", "infrastructure"}),
        IssueAnalysisOf("Rotate OAuth tokens", <<"JWT expiry">>, {"security"})>> }

\* A RepositoryAnalysis; languages is the Map language -> percentage as the
\* list of its entries.
RepositoryAnalysisOf(repository, isFork, primaryLanguage, languages, topics, description) ==
    [repository |-> repository, isFork |-> isFork,
     primaryLanguage |-> primaryLanguage, languages |-> languages,
     topics |-> topics, description |-> description, stars |-> 10,
     isArchived |-> FALSE]

RepositoryAnalysisLists ==
    { <<>>,
      <<RepositoryAnalysisOf("notes", FALSE, "Markdown",
                             <<[language |-> "Markdown", percentage |-> 100]>>,
                             <<>>, <<"Personal notes">>),
        RepositoryAnalysisOf("api-server", FALSE, "Python",
                             <<[language |-> "Python", percentage |-> 80],
                               [language |-> "Go", percentage |-> 5]>>,
                             <<"api", "microservices">>, <<"REST backend service">>),
        RepositoryAnalysisOf("react", TRUE, "JavaScript",
                             <<[language |-> "JavaScript", percentage |-> 100]>>,
                             <<"react", "spa">>, <<>>)>> }

CodeReviewLists ==
    { <<>>,
      <<[repository |-> "repo1", prId |-> "8",
         reviewedFiles |-> <<"docs/guide.md", "src/app.py">>,
         languages |-> <<"Python">>]>>,
      <<[repository |-> "repo1", prId |-> "7",
         reviewedFiles |-> <<"README">>, languages |-> <<>>],
        [repository |-> "repo1", prId |-> "8",
         reviewedFiles |-> <<"docs/guide.md", "src/app.py">>,
         languages |-> <<"Python">>],
        [repository |-> "repo1", prId |-> "9",
         reviewedFiles |-> <<"web/App.TSX">>, languages |-> <<"TypeScript">>]>> }

EngineerActivities ==
    {[prs |-> prs, issues |-> issues, repositories |-> repositories,
      codeReviews |-> codeReviews] :
       prs \in PRAnalysisLists, issues \in IssueAnalysisLists,
       repositories \in RepositoryAnalysisLists, codeReviews \in CodeReviewLists}

RoleQueries ==
    {[role |-> role] : role \in {"backend", "frontend", "devops", "security"}}

(***************************************************************************)
(* Specification of one call of calculateCompatibilityScore.               *)
(***************************************************************************)
InitCompat ==
    /\ pc = "ready"
    /\ now = 0
    /\ engineerActivity \in EngineerActivities
    /\ roleQuery \in RoleQueries
    /\ compatibilityResult = NoResult
    /\ trustResult = NoResult /\ impactResult = NoResult
    /\ matchConfig = <<>> /\ matchResult = NoResult
    /\ githubActivity = <<>> /\ impactConfig = <<>> /\ prevResult = NoResult
    /\ account = <<>> /\ contributionPattern = <<>> /\ trustConfig = <<>>
    /\ fetched = <<>> /\ normalizedPR = NoResult
    /\ NoFlow

CalculateCompat ==
    /\ pc = "ready"
    /\ compatibilityResult' = calculateCompatibilityScore(engineerActivity, roleQuery)
    /\ pc' = "done"
    /\ UNCHANGED <<now, trustResult, impactResult, matchConfig, matchResult,
                   impactVars, prevResult, trustVars, compatVars, normVars, flowVars>>

NextCompat == CalculateCompat

SpecCompat == InitCompat /\ [][NextCompat]_vars

(***************************************************************************)
(* Properties of the compatibility calculator                              *)
(***************************************************************************)
CompatDone == pc = "done" /\ compatibilityResult # NoResult /\ engineerActivity # <<>>

SIGNAL_NAMES ==
    {"technologyStackMatch", "domainContributionDepth", "architecturePatternMatch",
     "fileTypeAlignment", "activityTypeMatch", "repositoryTypeMatch",
     "reviewDomainExpertise"}

IsEmptyActivity(activity) ==
    /\ Len(activity.prs) = 0 /\ Len(activity.issues) = 0
    /\ Len(activity.repositories) = 0 /\ Len(activity.codeReviews) = 0

\* C6: on an activity with no PRs, issues, repositories or code reviews the
\* result is well defined: totalScore is a finite number below 30,
\* compatibilityLevel is 'poor', and every signal and negative signal is a
\* finite number (the signals and the three fixed penalties are finite by
\* construction; technologyMismatch and domainContradiction come from a quotient).
C6_EmptyActivityWellDefined ==
    (CompatDone /\ IsEmptyActivity(engineerActivity)) =>
        /\ ~compatibilityResult.totalScore.nan
        /\ compatibilityResult.totalScore.value < 30 * Milli
        /\ compatibilityResult.compatibilityLevel = "poor"
        /\ \A name \in SIGNAL_NAMES : compatibilityResult.signals[name] \in Int
        /\ ~compatibilityResult.negativeSignals.technologyMismatch.nan
        /\ ~compatibilityResult.negativeSignals.domainContradiction.nan
        /\ compatibilityResult.negativeSignals.insufficientDepth \in Int
        /\ compatibilityResult.negativeSignals.architectureMismatch \in Int
        /\ compatibilityResult.negativeSignals.technologyOverweight \in Int

\* C10: each of the seven signals lies in [0,100] for every activity, and a PR
\* that passes both the relevant-files test and the keyword test counts once:
\* relevantPRs never exceeds totalPRs.
C10_SignalsInRange ==
    CompatDone =>
        /\ \A name \in SIGNAL_NAMES : InScoreRange(compatibilityResult.signals[name])
        /\ compatibilityResult.breakdown.contributionDepth.relevantPRs
             <= compatibilityResult.breakdown.contributionDepth.totalPRs
\* The changed-file touches of an activity that hit a negative indicator of
\* the role, as a count.
MismatchingTouches(activity, role) ==
    LET files == AllFilesChanged(activity)
    IN  Cardinality({i \in 1..Len(files) :
          SomeIncluded(ROLE_TECHNOLOGY_INDICATORS[role].negativeIndicators,
                       ToLowerCase(files[i].filePath))})

\* C18: negativeSignals.technologyMismatch is 100 times the mismatching file
\* touches divided by all file touches of all PRs (0 without file touches),
\* hence a number in [0,100].
C18_TechnologyMismatchIsTouchFraction ==
    CompatDone =>
      LET touches == Len(AllFilesChanged(engineerActivity))
          mismatching == MismatchingTouches(engineerActivity, roleQuery.role)
          technologyMismatch == compatibilityResult.negativeSignals.technologyMismatch
      IN  /\ ~technologyMismatch.nan
          /\ InScoreRange(technologyMismatch.value)
          /\ technologyMismatch.value
               = IF touches = 0 THEN 0 ELSE (mismatching * 100 * Milli) \div touches

\* C19, as claimed: negativeSignals.architectureMismatch is 100 when no
\* architecture pattern is detected for the role and 0 otherwise.
C19_ArchitectureMismatchIsHundred ==
    CompatDone =>
        compatibilityResult.negativeSignals.architectureMismatch
          = IF compatibilityResult.breakdown.architecturePatterns.detectedPatterns = <<>>
            THEN 100 * Milli ELSE 0

\* C19, amended: negativeSignals.architectureMismatch is binary: it is 50 when
\* no architecture pattern is detected for the role and 0 otherwise.
C19_ArchitectureMismatchIsFifty ==
    CompatDone =>
        compatibilityResult.negativeSignals.architectureMismatch
          = IF compatibilityResult.breakdown.architecturePatterns.detectedPatterns = <<>>
            THEN 50 * Milli ELSE 0

\* A frontend candidate whose only PR fixes a button: no pattern is detected
\* and the penalty is 50.
C19_Witness ==
    /\ CompatDone
    /\ Len(engineerActivity.prs) = 1
    /\ engineerActivity.prs[1].title = "Fix Button layout"
    /\ compatibilityResult.breakdown.architecturePatterns.detectedPatterns = <<>>
    /\ compatibilityResult.negativeSignals.architectureMismatch = 50 * Milli

(***************************************************************************)
(* Normalizer of the GitHub ingestion: normalizePullRequest.               *)
(*                                                                         *)
(* An ISO 8601 timestamp of the API is the record of its fields            *)
(* [y, m, d, h]; new Date(timestamp) is DateOf of them.                    *)
(***************************************************************************)
\* text.split(separator) for a one-character separator
RECURSIVE Split(_, _)
Split(text, separator) ==
    LET at == {i \in 1..Len(text) : SubSeq(text, i, i) = separator}
    IN  IF at = {} THEN <<text>>
        ELSE LET first == CHOOSE i \in at : \A j \in at : i <= j
             IN  <<SubSeq(text, 1, first - 1)>>
                   \o Split(SubSeq(text, first + 1, Len(text)), separator)

\* new Date(timestamp)
NewDate(timestamp) == DateOf(timestamp.y, timestamp.m, timestamp.d, timestamp.h)

\* normalizePullRequest(pr, repo, files, reviews, reviewComments) for a pr
\* with merged_at set (it throws otherwise); timeToMerge in hours.
normalizePullRequest(pr, repo, files, reviews, reviewComments) ==
    LET \* pr.merged_by?.login: undefined (<<>>) when merged_by is null
        mergedByLogin == IF pr.merged_by = <<>> THEN <<>>
                         ELSE <<pr.merged_by[1].login>>
        directories ==
          {LET parts == Split(files[i].filename, "/")
           IN  JoinWith(SubSeq(parts, 1, Len(parts) - 1), "/") : i \in 1..Len(files)}
        mergedAt == NewDate(pr.merged_at[1])
    IN  [id |-> ToString(pr.id),
         repository |-> repo.full_name,
         mergedAt |-> mergedAt,
         \* pr.merged_by?.login || pr.user.login
         mergedBy |-> IF Truthy(mergedByLogin) THEN mergedByLogin[1]
                      ELSE pr.user.login,
         author |-> pr.user.login,
         reviewCommentsReceived |-> Len(reviewComments),
         reviewRounds |-> Cardinality({reviews[i].submitted_at : i \in 1..Len(reviews)}),
         filesChanged |-> Len(files),
         directoriesTouched |-> Cardinality(directories),
         \* pr.merged_by?.login !== pr.user.login
         isMaintainerMerge |-> mergedByLogin # <<pr.user.login>>,
         isFork |-> (pr.head.repo # <<>> /\ pr.head.repo[1].fork) \/ repo.fork,
         timeToMerge |-> mergedAt - NewDate(pr.created_at)]

(***************************************************************************)
(* Inputs of the normalizer                                                *)
(***************************************************************************)
\* merged_at of a closed pull request: null when it was closed unmerged.
MergedAtValues ==
    { <<>>, <<[y |-> 2025, m |-> 3, d |-> 6, h |-> 10]>>,
      <<[y |-> 2024, m |-> 1, d |-> 11, h |-> 20]>> }

\* merged_by: null, the author, a maintainer.
MergedByValues == { <<>>, <<[login |-> ENGINEER]>>, <<[login |-> "maintainer1"]>> }

HeadRepos == { <<>>, <<[name |-> "repo1", full_name |-> "engineer1/repo1", fork |-> TRUE]>>,
               <<[name |-> "repo1", full_name |-> "org/repo1", fork |-> FALSE]>> }

GitHubAPIPullRequests ==
    { [id |-> 101, number |-> 7, merged |-> mergedAt # <<>>, merged_at |-> mergedAt,
       user |-> [login |-> ENGINEER], merged_by |-> mergedBy,
       head |-> [repo |-> head, ref |-> "feature"],
       created_at |-> [y |-> 2024, m |-> 1, d |-> 10, h |-> 8]] :
        mergedAt \in MergedAtValues, mergedBy \in MergedByValues, head \in HeadRepos }

GitHubAPIRepositories ==
    { [name |-> "repo1", full_name |-> "org/repo1", fork |-> isFork] :
        isFork \in BOOLEAN }

PullRequestFileLists ==
    { <<>>,
      <<[filename |-> "src/api/users.py"], [filename |-> "src/api/auth.py"],
        [filename |-> "README.md"]>>,
      <<[filename |-> "docs/guide.md"]>> }

GitHubAPIReviewLists ==
    { <<>>,
      <<[user |-> [login |-> "maintainer1"], state |-> "COMMENTED",
         submitted_at |-> [y |-> 2024, m |-> 1, d |-> 10, h |-> 12]],
        [user |-> [login |-> "maintainer1"], state |-> "APPROVED",
         submitted_at |-> [y |-> 2024, m |-> 1, d |-> 11, h |-> 9]]>> }

(***************************************************************************)
(* Specification of one call of normalizePullRequest.                      *)
(***************************************************************************)
InitNormalize ==
    /\ pc = "ready"
    /\ now = 0
    /\ fetched \in [pr : GitHubAPIPullRequests, repo : GitHubAPIRepositories,
                     files : PullRequestFileLists, reviews : GitHubAPIReviewLists,
                     reviewComments : {<<>>, <<[id |-> 1], [id |-> 2]>>}]
    /\ normalizedPR = NoResult
    /\ trustResult = NoResult /\ compatibilityResult = NoResult
    /\ impactResult = NoResult
    /\ matchConfig = <<>> /\ matchResult = NoResult
    /\ githubActivity = <<>> /\ impactConfig = <<>> /\ prevResult = NoResult
    /\ account = <<>> /\ contributionPattern = <<>> /\ trustConfig = <<>>
    /\ engineerActivity = <<>> /\ roleQuery = <<>>
    /\ NoFlow

\* The call returns a MergedPR, or throws 'PR is not merged'.
NormalizePullRequest ==
    /\ pc = "ready"
    /\ IF fetched.pr.merged_at = <<>>
       THEN pc' = "thrown" /\ UNCHANGED normalizedPR
       ELSE /\ pc' = "done"
            /\ normalizedPR' = normalizePullRequest(fetched.pr, fetched.repo,
                                  fetched.files, fetched.reviews, fetched.reviewComments)
    /\ UNCHANGED <<now, matchVars, impactVars, prevResult, trustVars, compatVars,
                   fetched, flowVars>>

NextNormalize == NormalizePullRequest

SpecNormalize == InitNormalize /\ [][NextNormalize]_vars

(***************************************************************************)
(* Properties of the normalizer                                            *)
(***************************************************************************)
Normalized == pc = "done" /\ normalizedPR # NoResult

\* C20: a MergedPR produced by the normalizer has isMaintainerMerge exactly
\* when author # mergedBy, so no PR is both a maintainer merge and self-merged;
\* also when the pull request's merged_by is missing.
C20_MaintainerMergeIffNotSelfMerged ==
    Normalized =>
        (normalizedPR.isMaintainerMerge <=> normalizedPR.author # normalizedPR.mergedBy)

(***************************************************************************)
(* Properties of the role weights                                          *)
(***************************************************************************)
\* The weighted sum of the positive signals of a result, in Milli * Pct.
WeightedSignals(signals, weights) ==
    signals.technologyStackMatch * weights.technologyStackMatch
    + signals.domainContributionDepth * weights.domainContributionDepth
    + signals.architecturePatternMatch * weights.architecturePatternMatch
    + signals.fileTypeAlignment * weights.fileTypeAlignment
    + signals.activityTypeMatch * weights.activityTypeMatch
    + signals.repositoryTypeMatch * weights.repositoryTypeMatch
    + signals.reviewDomainExpertise * weights.reviewDomainExpertise

\* C29: the seven signal weights of getRoleWeights sum to 1 for the role of
\* the call, so the weighted sum of the positive signals lies in [0,100]
\* before penalties and clamp.
C29_RoleWeightsSumToOne ==
    CompatDone =>
      LET weights == getRoleWeights(roleQuery.role)
      IN  /\ weights.technologyStackMatch + weights.domainContributionDepth
               + weights.architecturePatternMatch + weights.fileTypeAlignment
               + weights.activityTypeMatch + weights.repositoryTypeMatch
               + weights.reviewDomainExpertise = Pct
          /\ WeightedSignals(compatibilityResult.signals, weights) >= 0
          /\ WeightedSignals(compatibilityResult.signals, weights) <= 100 * Milli * Pct

(***************************************************************************)
(* The concerns of the match explanation: title and severity of each       *)
(* entry, in the order generateConcerns pushes them.                       *)
(***************************************************************************)
Concern(title, severity) == [title |-> title, severity |-> severity]

\* A concern list that rates the fork contribution ratio as high severity.
generateConcernsForkRatioHigh(trustRes, impactRes, compatibilityRes) ==
    Pushes(<<
      <<~trustRes.isAuthentic, Concern("Profile Authenticity Concerns", "high")>>,
      <<trustRes.spamDetection.forkFarming, Concern("Fork-Only Contributions", "high")>>,
      <<trustRes.signals.forkContributionRatio > 800,
        Concern("High Fork Contribution Ratio", "high")>>,
      <<trustRes.signals.accountAge < 180 * Milli, Concern("New Account", "low")>>,
      <<trustRes.signals.repositoryDiversity < 30 * Milli,
        Concern("Limited Repository Diversity", "medium")>>,
      <<impactRes.signals.totalMergedPRs < 5,
        Concern("Limited Contribution History", "medium")>>,
      <<impactRes.components.longevity.score < 40 * Milli,
        Concern("Short Activity Span", "low")>>,
      <<impactRes.components.collaboration.score < 40 * Milli,
        Concern("Limited Collaboration", "low")>>,
      <<compatibilityRes.compatibilityLevel = "poor",
        Concern("Poor Role Compatibility", "high")>>,
      <<compatibilityRes.signals.technologyStackMatch < 30 * Milli,
        Concern("Technology Stack Mismatch", "medium")>>,
      <<compatibilityRes.signals.domainContributionDepth < 30 * Milli,
        Concern("Limited Domain Experience", "medium")>>,
      <<compatibilityRes.negativeSignals.technologyMismatch > 50 * Milli,
        Concern("Significant Technology Mismatch", "medium")>> >>)

generateConcerns(trustRes, impactRes, compatibilityRes) ==
    Pushes(<<
      <<~trustRes.isAuthentic, Concern("Profile Authenticity Concerns", "high")>>,
      <<trustRes.spamDetection.forkFarming, Concern("Fork-Only Contributions", "high")>>,
      <<trustRes.signals.forkContributionRatio > 800,
        Concern("High Fork Contribution Ratio", "medium")>>,
      <<trustRes.signals.accountAge < 180 * Milli, Concern("New Account", "low")>>,
      <<trustRes.signals.repositoryDiversity < 30 * Milli,
        Concern("Limited Repository Diversity", "medium")>>,
      <<impactRes.signals.totalMergedPRs < 5,
        Concern("Limited Contribution History", "medium")>>,
      <<impactRes.components.longevity.score < 40 * Milli,
        Concern("Short Activity Span", "low")>>,
      <<impactRes.components.collaboration.score < 40 * Milli,
        Concern("Limited Collaboration", "low")>>,
      <<compatibilityRes.compatibilityLevel = "poor",
        Concern("Poor Role Compatibility", "high")>>,
      <<compatibilityRes.signals.technologyStackMatch < 30 * Milli,
        Concern("Technology Stack Mismatch", "medium")>>,
      <<compatibilityRes.signals.domainContributionDepth < 30 * Milli,
        Concern("Limited Domain Experience", "medium")>>,
      <<compatibilityRes.negativeSignals.technologyMismatch > 50 * Milli,
        Concern("Significant Technology Mismatch", "medium")>> >>)

HighSeverity(concerns) == SelectSeq(concerns, LAMBDA c : c.severity = "high")

\* C28: for the same three results the recruiter view holds as many red
\* flags as the match explanation holds high-severity concerns, one for each
\* of: profile not authentic, fork farming, compatibility level poor.
C28_RedFlagsMatchHighConcerns ==
    MatchDone =>
      LET high == HighSeverity(generateConcerns(trustResult, impactResult,
                                                compatibilityResult))
          flags == matchResult.recruiterView.redFlags
      IN  /\ Len(flags) = Len(high)
          /\ Includes(flags, "Profile authenticity concerns")
               <=> Includes(high, Concern("Profile Authenticity Concerns", "high"))
          /\ Includes(flags, "Fork-only contributions detected")
               <=> Includes(high, Concern("Fork-Only Contributions", "high"))
          /\ Includes(flags, "Poor role compatibility")
               <=> Includes(high, Concern("Poor Role Compatibility", "high"))

C28_Witness ==
    /\ MatchDone
    /\ ~trustResult.isAuthentic
    /\ ~trustResult.spamDetection.forkFarming
    /\ trustResult.signals.accountAge < 180 * Milli
    /\ compatibilityResult.compatibilityLevel = "poor"
    /\ Len(matchResult.recruiterView.redFlags) = 2
    /\ Len(generateConcerns(trustResult, impactResult, compatibilityResult)) > 2
    /\ Len(HighSeverity(generateConcerns(trustResult, impactResult,
                                         compatibilityResult))) = 2

(***************************************************************************)
(* Background jobs: engineer-analysis, github-fetch and score-computation. *)
(* Each function runs at most once per username (idempotency key          *)
(* event.data.username); a run advances one step at a time.                *)
(***************************************************************************)
Usernames == {"engineer1", "engineer2"}

\* retries of the three functions
RETRIES == [analysis |-> 3, fetch |-> 5, compute |-> 2]

NoRun == [pc |-> "none"]

\* The engineer/analyze events that trigger a run.
AnalyzeEvents ==
    { [username |-> "engineer1", roleQuery |-> <<>>, forceRefresh |-> FALSE],
      [username |-> "engineer1", roleQuery |-> <<[role |-> "frontend"]>>,
       forceRefresh |-> TRUE],
      [username |-> "engineer2", roleQuery |-> <<>>, forceRefresh |-> FALSE] }

checkCachedData(username) == <<>>

isStale(data, clock) == clock - data.computedAt > HoursPerDay

getCachedResults(username) == <<>>

\* inngest.send resolves to the ids of the events it sent.
SendResult(event) == [ids |-> <<event.name \o ":" \o event.data.username>>]

normalizeAccount(data) ==
    [username |-> data.login, createdAt |-> NewDate(data.created_at),
     publicRepos |-> data.public_repos, followers |-> data.followers,
     following |-> data.following, bio |-> data.bio, location |-> data.location,
     company |-> data.company, website |-> data.blog, email |-> data.email,
     isVerified |-> FALSE]

buildContributionPattern(activity, acct) ==
    [totalPRs |-> Len(activity.mergedPRs),
     mergedPRs |-> Len(activity.mergedPRs),
     openPRs |-> 0,
     closedPRs |-> 0,
     selfMergedPRs |-> Len(SelectSeq(activity.mergedPRs, LAMBDA pr : pr.author = pr.mergedBy)),
     forkPRs |-> Len(SelectSeq(activity.mergedPRs, LAMBDA pr : pr.isFork)),
     originalRepoPRs |-> Len(SelectSeq(activity.mergedPRs, LAMBDA pr : ~pr.isFork)),
     forkOnlyRepos |-> <<>>,
     originalRepoContributions |-> Len(SelectSeq(activity.mergedPRs, LAMBDA pr : ~pr.isFork)),
     firstContributionDate |-> <<activity.activitySpan.firstPRDate>>,
     lastContributionDate |-> <<activity.activitySpan.lastPRDate>>,
     contributionDays |-> 0,
     contributionMonths |-> 0,
     averagePRsPerDay |-> 0,
     maxPRsInSingleDay |-> 0,
     uniqueRepositories |-> Len(activity.repositories),
     repositoriesWithMultiplePRs |-> 0,
     repositoriesWithMaintainerInteraction |-> 0,
     reviewsGiven |-> Len(activity.reviewsGiven),
     reviewsReceived |-> Len(activity.reviewsReceived),
     maintainerReviews |-> 0,
     issuesOpened |-> Len(activity.issues),
     issuesClosed |-> 0,
     issuesWithPRs |-> 0,
     commitTimePatterns |-> <<>>,
     identicalCommitMessages |-> 0,
     uniqueCollaborators |-> 0,
     maintainerInteractions |-> 0,
     crossRepositoryCollaborations |-> 0]

\* for (const pr of activity.prs) on a record without prs
ThrowsTypeError(activity) == "prs" \notin DOMAIN activity

\* A wait that takes the completion event of any username.
MatchesWaitAnyUsername(run, event) ==
    event.name = "github/fetch.complete"

\* match: 'data.username' of step.waitForEvent
MatchesWait(run, event) ==
    /\ event.name = "github/fetch.complete"
    /\ event.data.username = run.username

(***************************************************************************)
(* What GitHub holds for each username: the activity fetchAllUserData      *)
(* returns (its span runs from the first to the last merge, or is the      *)
(* time of the call when there is no merged PR) and the user record.       *)
(***************************************************************************)
ForkPR == MergedPROf("maintainer1", DateOf(2025, 3, 6, 10), 3)
SelfForkPR == MergedPROf(ENGINEER, DateOf(2025, 3, 6, 10), 3)
OriginalPR == MergedPROf("maintainer1", DateOf(2024, 1, 11, 9), 3)

FetchedActivityOf(prs, clock) ==
    [mergedPRs |-> prs,
     reviewsGiven |-> IF Len(prs) = 0 THEN <<>> ELSE <<[commentCount |-> 1]>>,
     reviewsReceived |-> [i \in 1..Len(prs) |-> [commentCount |-> 3]],
     issues |-> <<[ledToMergedPR |-> TRUE]>>,
     repositories |-> IF Len(prs) = 0 THEN <<>> ELSE <<[contributorCount |-> 5]>>,
     activitySpan |->
       IF Len(prs) = 0 THEN [firstPRDate |-> clock, lastPRDate |-> clock]
       ELSE [firstPRDate |-> prs[1].mergedAt, lastPRDate |-> prs[Len(prs)].mergedAt]]

MergedPRsOnGitHub(username) ==
    IF username = "engineer1"
    THEN { <<>>, <<ForkPR, SelfForkPR>>, <<OriginalPR, ForkPR>> }
    ELSE { <<ForkPR>> }

UsersOnGitHub(username) ==
    { [login |-> username, created_at |-> [y |-> 2024, m |-> 2, d |-> 1, h |-> 0],
       public_repos |-> 10, followers |-> 50, following |-> 30,
       bio |-> <<"Software engineer">>, location |-> <<>>, company |-> <<>>,
       blog |-> <<>>, email |-> <<>>] }

InitJobs ==
    /\ pc = "ready"
    /\ now = NowStart
    /\ analysisRuns = [u \in Usernames |-> NoRun]
    /\ fetchRuns = [u \in Usernames |-> NoRun]
    /\ computeRuns = [u \in Usernames |-> NoRun]
    /\ stored = [u \in Usernames |-> <<>>]
    /\ trustResult = NoResult /\ compatibilityResult = NoResult
    /\ impactResult = NoResult
    /\ matchConfig = <<>> /\ matchResult = NoResult
    /\ githubActivity = <<>> /\ impactConfig = <<>> /\ prevResult = NoResult
    /\ account = <<>> /\ contributionPattern = <<>> /\ trustConfig = <<>>
    /\ engineerActivity = <<>> /\ roleQuery = <<>>
    /\ fetched = <<>> /\ normalizedPR = NoResult
    /\ analyzerConfig = <<>> /\ userRepos = <<>> /\ batchStart = 0 /\ inFlight = {}
    /\ repositoryContributions = <<>>
    /\ users = <<>> /\ jobs = <<>> /\ lastCall = <<>>

calcVars == <<pc, now, matchVars, impactVars, prevResult, trustVars, compatVars, normVars>>

\* An engineer/analyze event starts the run of its username.
Analyze ==
    /\ \E event \in AnalyzeEvents :
         /\ analysisRuns[event.username].pc = "none"
         /\ analysisRuns' =
              [analysisRuns EXCEPT ![event.username] =
                 [pc |-> "check-cache", username |-> event.username,
                  roleQuery |-> event.roleQuery, forceRefresh |-> event.forceRefresh,
                  wait |-> "pending", activity |-> <<>>, scores |-> NoResult,
                  attempts |-> 0,
                  error |-> <<>>, returned |-> NoResult]]
    /\ UNCHANGED <<calcVars, fetchRuns, computeRuns, stored, fetchVars, crmVars>>

\* Step check-cache, and get-cached-results when there is fresh cached data.
CheckCache ==
    /\ \E u \in Usernames :
         LET run == analysisRuns[u]
             cached == checkCachedData(u)
             shouldFetch == run.forceRefresh \/ cached = <<>> \/ isStale(cached[1], now)
         IN  /\ run.pc = "check-cache"
             /\ analysisRuns' =
                  [analysisRuns EXCEPT ![u] =
                     IF shouldFetch THEN [run EXCEPT !.pc = "fetch-github-data"]
                     ELSE [run EXCEPT !.pc = "completed",
                                      !.returned = getCachedResults(u)]]
    /\ UNCHANGED <<calcVars, fetchRuns, computeRuns, stored, fetchVars, crmVars>>

\* Step fetch-github-data sends github/fetch; the run then waits for
\* github/fetch.complete.
FetchGithubData ==
    /\ \E u \in Usernames :
         /\ analysisRuns[u].pc = "fetch-github-data"
         /\ analysisRuns' = [analysisRuns EXCEPT ![u].pc = "wait-github-fetch"]
         /\ fetchRuns' =
              IF fetchRuns[u].pc = "none"
              THEN [fetchRuns EXCEPT ![u] =
                      [pc |-> "fetch-activity", username |-> u, activity |-> NoResult,
                       account |-> NoResult, contributionPattern |-> NoResult]]
              ELSE fetchRuns
    /\ UNCHANGED <<calcVars, computeRuns, stored, fetchVars, crmVars>>

\* Steps init-octokit, fetch-repositories and fetch-activity.
FetchActivity ==
    /\ \E u \in Usernames :
         /\ fetchRuns[u].pc = "fetch-activity"
         /\ \E prs \in MergedPRsOnGitHub(u) :
              fetchRuns' = [fetchRuns EXCEPT ![u].pc = "fetch-account",
                                             ![u].activity = FetchedActivityOf(prs, now)]
    /\ UNCHANGED <<calcVars, analysisRuns, computeRuns, stored, fetchVars, crmVars>>

FetchAccount ==
    /\ \E u \in Usernames :
         /\ fetchRuns[u].pc = "fetch-account"
         /\ \E data \in UsersOnGitHub(u) :
              fetchRuns' = [fetchRuns EXCEPT ![u].pc = "build-contribution-pattern",
                                             ![u].account = normalizeAccount(data)]
    /\ UNCHANGED <<calcVars, analysisRuns, computeRuns, stored, fetchVars, crmVars>>

BuildContributionPattern ==
    /\ \E u \in Usernames :
         LET run == fetchRuns[u]
         IN  /\ run.pc = "build-contribution-pattern"
             /\ fetchRuns' =
                  [fetchRuns EXCEPT ![u].pc = "github-fetch-complete",
                                    ![u].contributionPattern =
                                       buildContributionPattern(run.activity, run.account)]
    /\ UNCHANGED <<calcVars, analysisRuns, computeRuns, stored, fetchVars, crmVars>>

\* Step github-fetch-complete: the event resumes the runs waiting for it.
SendFetchComplete ==
    /\ \E u \in Usernames :
         LET run == fetchRuns[u]
             event == [name |-> "github/fetch.complete",
                       data |-> [username |-> run.username, activity |-> run.activity,
                                 account |-> run.account,
                                 contributionPattern |-> run.contributionPattern]]
         IN  /\ run.pc = "github-fetch-complete"
             /\ fetchRuns' = [fetchRuns EXCEPT ![u].pc = "completed"]
             /\ analysisRuns' =
                  [v \in Usernames |->
                     IF analysisRuns[v].pc = "wait-github-fetch"
                          /\ MatchesWait(analysisRuns[v], event)
                     THEN [analysisRuns[v] EXCEPT !.pc = "compute-scores",
                                                  !.wait = "event",
                                                  !.activity = <<event>>]
                     ELSE analysisRuns[v]]
    /\ UNCHANGED <<calcVars, computeRuns, stored, fetchVars, crmVars>>

\* The 10 minutes of wait-github-fetch pass: waitForEvent resolves to null.
WaitTimeout ==
    /\ \E u \in Usernames :
         /\ analysisRuns[u].pc = "wait-github-fetch"
         /\ analysisRuns' = [analysisRuns EXCEPT ![u].pc = "throw-timed-out",
                                                 ![u].wait = "timeout",
                                                 ![u].activity = <<>>]
    /\ UNCHANGED <<calcVars, fetchRuns, computeRuns, stored, fetchVars, crmVars>>

\* if (!activity) throw: the run is retried with its steps memoized, and fails
\* when the retries are used up.
ThrowTimedOut ==
    /\ \E u \in Usernames :
         LET run == analysisRuns[u]
         IN  /\ run.pc = "throw-timed-out"
             /\ run.activity = <<>>
             /\ analysisRuns' =
                  [analysisRuns EXCEPT ![u] =
                     IF run.attempts < RETRIES.analysis
                     THEN [run EXCEPT !.attempts = @ + 1]
                     ELSE [run EXCEPT !.pc = "failed",
                                      !.error = <<"GitHub fetch timed out">>]]
    /\ UNCHANGED <<calcVars, fetchRuns, computeRuns, stored, fetchVars, crmVars>>

\* Step compute-scores sends scores/compute and keeps what send resolved to.
ComputeScores ==
    /\ \E u \in Usernames :
         LET run == analysisRuns[u]
             activity == run.activity[1]
             event == [name |-> "scores/compute",
                       data |-> [username |-> run.username,
                                 githubActivity |-> activity.data.activity,
                                 account |-> activity.data.account,
                                 contributionPattern |-> activity.data.contributionPattern,
                                 roleQuery |-> run.roleQuery]]
         IN  /\ run.pc = "compute-scores"
             /\ analysisRuns' = [analysisRuns EXCEPT ![u].pc = "store-results",
                                                     ![u].scores = SendResult(event)]
             /\ computeRuns' =
                  IF computeRuns[event.data.username].pc = "none"
                  THEN [computeRuns EXCEPT ![event.data.username] =
                          [pc |-> "compute-impact", data |-> event.data,
                           impactScore |-> NoResult, trustScore |-> NoResult,
                           compatibilityScore |-> NoResult, matchScore |-> NoResult,
                           attempts |-> 0, returned |-> NoResult]]
                  ELSE computeRuns
    /\ UNCHANGED <<calcVars, fetchRuns, stored, fetchVars, crmVars>>

\* Step store-results and the return of the run.
StoreResults ==
    /\ \E u \in Usernames :
         LET run == analysisRuns[u]
             activity == run.activity[1]
         IN  /\ run.pc = "store-results"
             /\ stored' = [stored EXCEPT ![run.username] =
                             <<[activity |-> activity.data.activity,
                                scores |-> Opt(run.scores, "data"),
                                computedAt |-> now]>>]
             /\ analysisRuns' =
                  [analysisRuns EXCEPT ![u].pc = "completed",
                                       ![u].returned =
                                          [username |-> run.username,
                                           scores |-> Opt(run.scores, "data"),
                                           computedAt |-> now]]
    /\ UNCHANGED <<calcVars, fetchRuns, computeRuns, fetchVars, crmVars>>

ComputeImpact ==
    /\ \E u \in Usernames :
         LET run == computeRuns[u]
         IN  /\ run.pc = "compute-impact"
             /\ computeRuns' =
                  [computeRuns EXCEPT ![u].pc = "compute-trust",
                                      ![u].impactScore =
                                         calculateImpactScore(run.data.githubActivity,
                                                              <<>>, now)]
    /\ UNCHANGED <<calcVars, analysisRuns, fetchRuns, stored, fetchVars, crmVars>>

ComputeTrust ==
    /\ \E u \in Usernames :
         LET run == computeRuns[u]
         IN  /\ run.pc = "compute-trust"
             /\ computeRuns' =
                  [computeRuns EXCEPT ![u].pc = "compute-compatibility",
                                      ![u].trustScore =
                                         calculateTrustScore(run.data.account,
                                            run.data.contributionPattern, <<>>, now)]
    /\ UNCHANGED <<calcVars, analysisRuns, fetchRuns, stored, fetchVars, crmVars>>

\* Step compute-compatibility, retried while it throws, then step
\* compute-match and the return of the run.
ComputeCompatibilityAndMatch ==
    /\ \E u \in Usernames :
         LET run == computeRuns[u]
             query == IF run.data.roleQuery = <<>> THEN [role |-> "backend"]
                      ELSE run.data.roleQuery[1]
         IN  /\ run.pc = "compute-compatibility"
             /\ computeRuns' =
                  [computeRuns EXCEPT ![u] =
                     IF ThrowsTypeError(run.data.githubActivity)
                     THEN IF run.attempts < RETRIES.compute
                          THEN [run EXCEPT !.attempts = @ + 1]
                          ELSE [run EXCEPT !.pc = "failed"]
                     ELSE LET compatibilityScore ==
                                calculateCompatibilityScore(run.data.githubActivity, query)
                              matchScore ==
                                calculateRecruiterMatchScore(run.trustScore,
                                   compatibilityScore, run.impactScore, <<>>)
                          IN  [run EXCEPT
                                 !.pc = "completed",
                                 !.compatibilityScore = compatibilityScore,
                                 !.matchScore = matchScore,
                                 !.returned =
                                    [username |-> run.data.username,
                                     impactScore |-> run.impactScore,
                                     trustScore |-> run.trustScore,
                                     compatibilityScore |-> compatibilityScore,
                                     matchScore |-> matchScore,
                                     computedAt |-> now]]]
    /\ UNCHANGED <<calcVars, analysisRuns, fetchRuns, stored, fetchVars, crmVars>>

NextJobs ==
    \/ Analyze \/ CheckCache \/ FetchGithubData
    \/ FetchActivity \/ FetchAccount \/ BuildContributionPattern \/ SendFetchComplete
    \/ WaitTimeout \/ ThrowTimedOut \/ ComputeScores \/ StoreResults
    \/ ComputeImpact \/ ComputeTrust \/ ComputeCompatibilityAndMatch

SpecJobs == InitJobs /\ [][NextJobs]_vars

(***************************************************************************)
(* Properties of the background jobs                                       *)
(***************************************************************************)
Started(run) == run.pc # "none"

\* The scores a finished score-computation run returns.
FourScores(run) ==
    [impactScore |-> run.impactScore, trustScore |-> run.trustScore,
     compatibilityScore |-> run.compatibilityScore, matchScore |-> run.matchScore]

\* C21: results are stored for a username only after its score computation
\* has finished, and the stored record and the value the analysis run returns
\* hold the impact, trust, compatibility and match scores of that computation.
C21_StoreAfterScoresComputed ==
    \A u \in Usernames :
      stored[u] # <<>> =>
        /\ computeRuns[u].pc = "completed"
        /\ stored[u][1].scores = FourScores(computeRuns[u])
        /\ analysisRuns[u].pc = "completed"
             => analysisRuns[u].returned.scores = FourScores(computeRuns[u])

TimedOut(run) == Started(run) /\ run.wait = "timeout"

ReceivedMatchingEvent(run) ==
    /\ Started(run)
    /\ run.wait = "event"
    /\ run.activity # <<>>
    /\ run.activity[1].name = "github/fetch.complete"
    /\ run.activity[1].data.username = run.username

\* C22: a run whose wait for github/fetch.complete timed out only throws
\* 'GitHub fetch timed out': it sends no scores/compute and stores nothing.  The
\* steps compute-scores and store-results are reached only by runs that
\* received a github/fetch.complete event of their own username.
C22_TimeoutFailsWithoutScores ==
    \A u \in Usernames :
      LET run == analysisRuns[u]
      IN  /\ TimedOut(run) =>
                /\ run.pc \in {"throw-timed-out", "failed"}
                /\ run.scores = NoResult
                /\ ~Started(computeRuns[u])
                /\ stored[u] = <<>>
          /\ (Started(run) /\ run.pc = "failed") =>
                /\ TimedOut(run)
                /\ run.error = <<"GitHub fetch timed out">>
                /\ run.attempts = RETRIES.analysis
          /\ (Started(run) /\ run.pc \in {"compute-scores", "store-results", "completed"})
                => ReceivedMatchingEvent(run)
          /\ (Started(computeRuns[u]) \/ stored[u] # <<>>) => ReceivedMatchingEvent(run)

\* engineer1 timed out and failed while the fetch of engineer2 completed and
\* the run of engineer2 went on to store.
C22_Witness ==
    /\ analysisRuns["engineer1"].pc = "failed"
    /\ analysisRuns["engineer1"].error = <<"GitHub fetch timed out">>
    /\ fetchRuns["engineer1"].pc = "completed"
    /\ stored["engineer1"] = <<>>
    /\ ~Started(computeRuns["engineer1"])
    /\ fetchRuns["engineer2"].pc = "completed"
    /\ analysisRuns["engineer2"].pc = "completed"
    /\ stored["engineer2"] # <<>>

HasEngineerActivityShape(activity) ==
    {"prs", "issues", "repositories", "codeReviews"} \subseteq DOMAIN activity

\* C23: a score-computation run started from the payload of a
\* github/fetch.complete event hands the Compatibility Calculator a record of
\* the EngineerActivity shape (prs, issues, repositories, codeReviews), and
\* none of its steps fails.
C23_ComputeRunCompletesAllSteps ==
    \A u \in Usernames :
      Started(computeRuns[u]) =>
        /\ HasEngineerActivityShape(computeRuns[u].data.githubActivity)
        /\ computeRuns[u].pc # "failed"

AllMergedPRsTargetForks(activity) ==
    /\ Len(activity.mergedPRs) >= 1
    /\ \A i \in 1..Len(activity.mergedPRs) : activity.mergedPRs[i].isFork

\* C24: when every merged PR of the fetched activity targets a forked
\* repository, the trust score computed from the contribution pattern of the
\* fetch job reports fork farming.
C24_ForkFarmingDetectedEndToEnd ==
    \A u \in Usernames :
      LET run == computeRuns[u]
      IN  (/\ Started(run)
           /\ run.trustScore # NoResult
           /\ AllMergedPRsTargetForks(run.data.githubActivity))
            => run.trustScore.spamDetection.forkFarming

(***************************************************************************)
(* fetchAllUserData: the repositories of the user are worked through in    *)
(* batches; the callbacks of one batch run concurrently under Promise.all. *)
(***************************************************************************)
MaxRepos == 7    \* most repositories of a user

DEFAULT_ANALYZER_CONFIG ==
    [rateLimitBuffer |-> 10, maxConcurrentRequests |-> 3, retryAttempts |-> 3,
     retryDelay |-> 1000]

AnalyzerFullConfig(config) == Spread(DEFAULT_ANALYZER_CONFIG, config)

AnalyzerConfigs ==
    { <<>>, [rateLimitBuffer |-> 10, maxConcurrentRequests |-> 3],
      [maxConcurrentRequests |-> 1] }

batchSize == 5

\* repos.slice(i, i + batchSize), as the set of positions in repos
Batch(repoList, i) ==
    {k \in 1..Len(repoList) : i < k /\ k <= i + batchSize}

\* Repositories of the user; those at odd positions hold merged PRs.
RepositoryOf(k) ==
    [full_name |-> "engineer1/repo" \o ToString(k), prCount |-> IF k % 2 = 1 THEN 2 ELSE 0]

otherVars == <<now, matchVars, impactVars, prevResult, trustVars, compatVars, normVars>>

InitFetchAll ==
    /\ pc = "loop"
    /\ now = NowStart
    /\ analyzerConfig \in AnalyzerConfigs
    /\ userRepos \in {[k \in 1..n |-> RepositoryOf(k)] : n \in 0..MaxRepos}
    /\ batchStart = 0
    /\ inFlight = {}
    /\ repositoryContributions = <<>>
    /\ analysisRuns = <<>> /\ fetchRuns = <<>> /\ computeRuns = <<>> /\ stored = <<>>
    /\ users = <<>> /\ jobs = <<>> /\ lastCall = <<>>
    /\ trustResult = NoResult /\ compatibilityResult = NoResult
    /\ impactResult = NoResult
    /\ matchConfig = <<>> /\ matchResult = NoResult
    /\ githubActivity = <<>> /\ impactConfig = <<>> /\ prevResult = NoResult
    /\ account = <<>> /\ contributionPattern = <<>> /\ trustConfig = <<>>
    /\ engineerActivity = <<>> /\ roleQuery = <<>>
    /\ fetched = <<>> /\ normalizedPR = NoResult

\* Promise.all(batch.map(async (repo) => ...)): the callback of every
\* repository of the batch is called and runs to its first await.
StartBatch ==
    /\ pc = "loop"
    /\ batchStart < Len(userRepos)
    /\ inFlight' = Batch(userRepos, batchStart)
    /\ pc' = "batch"
    /\ UNCHANGED <<otherVars, analyzerConfig, userRepos, batchStart,
                   repositoryContributions, jobVars, crmVars>>

\* The callback of one repository resolves; a repository with merged PRs is
\* pushed to repositoryContributions.
ResolveRepository ==
    /\ pc = "batch"
    /\ \E k \in inFlight :
         /\ inFlight' = inFlight \ {k}
         /\ repositoryContributions' =
              IF userRepos[k].prCount > 0
              THEN Append(repositoryContributions,
                          [repository |-> userRepos[k].full_name,
                           prCount |-> userRepos[k].prCount])
              ELSE repositoryContributions
    /\ UNCHANGED <<otherVars, pc, analyzerConfig, userRepos, batchStart, jobVars, crmVars>>

\* Promise.all resolved: the loop goes on with i += batchSize.
EndBatch ==
    /\ pc = "batch"
    /\ inFlight = {}
    /\ batchStart' = batchStart + batchSize
    /\ pc' = "loop"
    /\ UNCHANGED <<otherVars, analyzerConfig, userRepos, inFlight,
                   repositoryContributions, jobVars, crmVars>>

\* The loop is over: fetchAllUserData returns.
ReturnActivity ==
    /\ pc = "loop"
    /\ batchStart >= Len(userRepos)
    /\ pc' = "done"
    /\ UNCHANGED <<otherVars, fetchVars, jobVars, crmVars>>

NextFetchAll == StartBatch \/ ResolveRepository \/ EndBatch \/ ReturnActivity

SpecFetchAll == InitFetchAll /\ [][NextFetchAll]_vars

\* C25: while fetchAllUserData runs, no more than config.maxConcurrentRequests
\* repositories (3 by default) are being processed at the same time.
C25_ConcurrencyWithinConfiguredLimit ==
    userRepos # <<>> =>
      Cardinality(inFlight) <= AnalyzerFullConfig(analyzerConfig).maxConcurrentRequests

(***************************************************************************)
(* CRM: job folders of recruiters.  The table "users" is fixed; calls come *)
(* from any caller, authenticated or not.                                  *)
(***************************************************************************)
MaxJobs == 2     \* most rows of the table "jobs"

UsersTable ==
    << [_id |-> "user1", tokenIdentifier |-> "token1", role |-> "recruiter"],
       [_id |-> "user2", tokenIdentifier |-> "token2", role |-> "recruiter"],
       [_id |-> "user3", tokenIdentifier |-> "token3", role |-> "engineer"] >>

\* ctx.auth.getUserIdentity(): null, a known user, or a token without a row.
Identities ==
    { <<>>, <<[subject |-> "token1"]>>, <<[subject |-> "token2"]>>,
      <<[subject |-> "token3"]>>, <<[subject |-> "token9"]>> }

JobIds == {"job1", "job2", "job3"}
CandidateIds == {"user3", "user2"}

JobId(n) == "job" \o ToString(n)

\* ctx.db.query("users").withIndex("by_token", ...).first()
UserByToken(table, identity) ==
    LET rows == SelectSeq(table, LAMBDA row : row.tokenIdentifier = identity.subject)
    IN  IF Len(rows) = 0 THEN <<>> ELSE <<rows[1]>>

\* ctx.db.get(jobId)
GetJob(table, jobId) == SelectSeq(table, LAMBDA row : row._id = jobId)

Call(name, identity, args, before, outcome) ==
    [name |-> name, identity |-> identity, args |-> args, before |-> before,
     outcome |-> outcome]

InitCRM ==
    /\ pc = "ready"
    /\ now = NowStart
    /\ users = UsersTable
    /\ jobs = <<>>
    /\ lastCall = <<>>
    /\ analysisRuns = <<>> /\ fetchRuns = <<>> /\ computeRuns = <<>> /\ stored = <<>>
    /\ analyzerConfig = <<>> /\ userRepos = <<>> /\ batchStart = 0 /\ inFlight = {}
    /\ repositoryContributions = <<>>
    /\ trustResult = NoResult /\ compatibilityResult = NoResult
    /\ impactResult = NoResult
    /\ matchConfig = <<>> /\ matchResult = NoResult
    /\ githubActivity = <<>> /\ impactConfig = <<>> /\ prevResult = NoResult
    /\ account = <<>> /\ contributionPattern = <<>> /\ trustConfig = <<>>
    /\ engineerActivity = <<>> /\ roleQuery = <<>>
    /\ fetched = <<>> /\ normalizedPR = NoResult

createJob ==
    /\ Len(jobs) < MaxJobs
    /\ \E identity \in Identities, args \in {[title |-> "Backend engineer"]} :
         LET user == IF identity = <<>> THEN <<>> ELSE UserByToken(users, identity[1])
         IN  IF identity = <<>>
             THEN /\ lastCall' = Call("createJob", identity, args, jobs,
                                      [error |-> "Unauthenticated"])
                  /\ UNCHANGED jobs
             ELSE IF user = <<>> \/ user[1].role # "recruiter"
             THEN /\ lastCall' = Call("createJob", identity, args, jobs,
                                      [error |-> "Only recruiters can create jobs"])
                  /\ UNCHANGED jobs
             ELSE /\ jobs' = Append(jobs, [_id |-> JobId(Len(jobs) + 1),
                                           recruiterId |-> user[1]._id,
                                           title |-> args.title,
                                           description |-> Opt(args, "description"),
                                           candidateIds |-> <<>>,
                                           status |-> "active"])
                  /\ lastCall' = Call("createJob", identity, args, jobs,
                                      [returned |-> JobId(Len(jobs) + 1)])
    /\ UNCHANGED <<calcVars, jobVars, fetchVars, users>>

addCandidateToJob ==
    /\ \E identity \in Identities, jobId \in JobIds, candidateId \in CandidateIds :
         LET args == [jobId |-> jobId, candidateId |-> candidateId]
             job == GetJob(jobs, jobId)
         IN  IF job = <<>>
             THEN /\ lastCall' = Call("addCandidateToJob", identity, args, jobs,
                                      [error |-> "Job not found"])
                  /\ UNCHANGED jobs
             ELSE IF Includes(job[1].candidateIds, candidateId)
             THEN /\ lastCall' = Call("addCandidateToJob", identity, args, jobs,
                                      [returned |-> job[1]._id])
                  /\ UNCHANGED jobs
             ELSE /\ jobs' = [n \in 1..Len(jobs) |->
                                IF jobs[n]._id = jobId
                                THEN [jobs[n] EXCEPT !.candidateIds =
                                        Append(job[1].candidateIds, candidateId)]
                                ELSE jobs[n]]
                  /\ lastCall' = Call("addCandidateToJob", identity, args, jobs,
                                      [returned |-> job[1]._id])
    /\ UNCHANGED <<calcVars, jobVars, fetchVars, users>>

listJobs ==
    /\ \E identity \in Identities :
         LET user == IF identity = <<>> THEN <<>> ELSE UserByToken(users, identity[1])
             listed == IF identity = <<>> THEN <<>>
                       ELSE IF user = <<>> \/ user[1].role # "recruiter" THEN <<>>
                       ELSE SelectSeq(jobs, LAMBDA row : row.recruiterId = user[1]._id)
         IN  lastCall' = Call("listJobs", identity, <<>>, jobs, [returned |-> listed])
    /\ UNCHANGED <<calcVars, jobVars, fetchVars, users, jobs>>

NextCRM == createJob \/ addCandidateToJob \/ listJobs

SpecCRM == InitCRM /\ [][NextCRM]_vars

\* The caller is the authenticated recruiter who created the job.
IsRecruiterOfJob(identity, job) ==
    /\ identity # <<>>
    /\ LET user == UserByToken(users, identity[1])
       IN  /\ user # <<>>
           /\ user[1].role = "recruiter"
           /\ user[1]._id = job.recruiterId

\* C30: addCandidateToJob called by an unauthenticated caller, by a user who
\* is no recruiter, or by a recruiter other than the one who created the job
\* leaves every job as it was.
C30_OnlyOwnerChangesCandidates ==
    (lastCall # <<>> /\ lastCall.name = "addCandidateToJob") =>
      LET job == GetJob(lastCall.before, lastCall.args.jobId)
      IN  (job = <<>> \/ ~IsRecruiterOfJob(lastCall.identity, job[1]))
            => jobs = lastCall.before

====
